---- MODULE Spec2Model ----
(***************************************************************************)
(* Google Maps review scrapers (src/src/*_scraper.py): one scrape_reviews  *)
(* call of one scraper instance, against a page whose markup, rendering    *)
(* and failures are chosen by the environment.                             *)
(***************************************************************************)
EXTENDS Integers, Sequences, FiniteSets, TLC

VARIABLES
    variant,         \* class of the scraper instance
    pc,              \* position of the call inside scrape_reviews
    page,            \* containers the page can render, in document order
    h1,              \* what the business-name lookup meets on the page
    max_reviews,     \* argument of scrape_reviews
    driver,          \* local variable driver of scrape_reviews
    launched,        \* browser processes started by webdriver.Chrome(...)
    quits,           \* invocations of driver.quit()
    loaded,          \* containers rendered in the DOM so far
    scroll,          \* index of the pagination round (the for variable)
    grew,            \* the last round rendered new containers
    stop,            \* which test ended the pagination loop
    reviews_data,    \* self.reviews_data
    business_info,   \* self.business_info
    debug_messages,  \* self.debug_messages
    retval,          \* value of the return statement awaiting the finally block
    outcome,         \* how the call ended: "returned" or "raised"
    failure,         \* the environment fault met by the call, "none" if none
    attempts,        \* calls of webdriver.Chrome(...) made by the setup method
    calls,           \* two threads inside scrape_reviews of one instance
    sessions,        \* the browser sessions those threads have started
    analyzer,        \* backend/main.py: the module-level CSVReviewAnalyzer
    api_response,    \* backend/main.py: the answer to the last request
    csv_analyzer,    \* app.py: the analyzer of the CSV tab
    csv_message,     \* app.py: what the CSV tab shows after an upload
    service,         \* a ReviewScraperService and its scrape_reviews call
    extraction,      \* one review container handed to a scraper's extraction
    history          \* the values returned by the earlier calls on the instance

call_vars == <<variant, pc, page, h1, max_reviews, driver, launched, quits, loaded,
          scroll, grew, stop, reviews_data, business_info, debug_messages,
          retval, outcome, failure, attempts>>

\* the state of the other parts of the application
other_vars ==
    <<calls, sessions, analyzer, api_response, csv_analyzer, csv_message, service,
      extraction, history>>

vars == <<call_vars, other_vars>>

(***************************************************************************)
(* Bounds of the model.                                                    *)
(***************************************************************************)
\* longest page enumerated container by container
MaxContainers == 2
\* largest small max_reviews argument (the default 100 is always tried too)
MaxReq == 2
\* longest page served by a browser that started at the retry only
RetryPageLen == 1
\* length of the long page (more than fifty containers)
LongLen == 52

(***************************************************************************)
(* Strings.  A text is a TLA+ string; the string functions the scrapers    *)
(* use are tabulated over the texts that occur on the modelled pages.      *)
(***************************************************************************)
None == "<None>"
NoRating == -1

\* str.strip()
strip(s) ==
    CASE s = " Bob " -> "Bob"
      [] s = " Pizza Place " -> "Pizza Place"
      [] s = "  " -> ""
      [] OTHER -> s

\* str.lower()
lower(s) ==
    CASE s = "User" -> "user"
      [] s = "G" -> "g"
      [] s = "Google User" -> "google user"
      [] s = "Local Guide" -> "local guide"
      [] s = "Alice" -> "alice"
      [] s = "Bob" -> "bob"
      [] s = "Carol" -> "carol"
      [] s = "Eve" -> "eve"
      [] s = "Frank" -> "frank"
      [] s = "Grace" -> "grace"
      [] s = "Great food and friendly staff" -> "great food and friendly staff"
      [] s = "Average pizza, could be better" -> "average pizza, could be better"
      [] s = "Nice" -> "nice"
      [] OTHER -> s

\* str.isdigit()
isdigit(s) == s \in {"5", "42"}

\* any(word in s.lower() for word in ['ago', 'month', 'week', 'day', 'year'])
has_date_word(s) == lower(s) \in {"2 weeks ago", "a month ago"}

\* 'star' in s.lower()
has_star(s) == lower(s) \in {"5 stars", "3 stars", "4 stars", "7 stars", "0 stars"}

\* re.search(r'(\d+)', s): the first run of digits as an int, NoRating if no match
first_int(s) ==
    CASE s = "5 stars" -> 5
      [] s = "4 stars" -> 4
      [] s = "3 stars" -> 3
      [] s = "7 stars" -> 7
      [] s = "0 stars" -> 0
      [] s = "2 weeks ago" -> 2
      [] s = "5" -> 5
      [] s = "42" -> 42
      [] OTHER -> NoRating

(***************************************************************************)
(* Selectors and page elements.  An element is its text and its aria-label *)
(* (None when it has none); a container maps a CSS selector to the element *)
(* container.find_element(By.CSS_SELECTOR, selector) returns, and is       *)
(* undefined where find_element raises NoSuchElementException.             *)
(***************************************************************************)
DRI == "[data-review-id]"
JFT == ".jftiEf"
MYE == ".MyEned"
FBM == ".fontBodyMedium"
WII == ".wiI7pd"
JSR == "[jsaction*=\"review\"]"
D4R == ".d4r55"
X43 == ".X43Kjb"
STAR_IMG == "[role=\"img\"][aria-label*=\"star\"]"
STAR_ANY == "[aria-label*=\"star\"]"
MYE_SPAN == ".MyEned span"
RSQ == ".rsqaWe"
P34 == ".p34Ii"

Text(t) == [text |-> t, aria |-> None]
Stars(a) == [text |-> "", aria |-> a]
Rated(a) == (STAR_IMG :> Stars(a)) @@ (STAR_ANY :> Stars(a))
GoodText == "Great food and friendly staff"

\* the container selectors a card of the modelled pages matches, by its name;
\* "alt" is a review card without the data-review-id attribute
Classes(k) == IF k = "alt" THEN {JFT} ELSE {DRI, JFT}

\* the child elements of a card of the modelled pages, by its name
Children(k) ==
    CASE k = "ok" ->
           (D4R :> Text("Alice")) @@ Rated("5 stars")
           @@ (WII :> Text(GoodText)) @@ (RSQ :> Text("2 weeks ago"))
      [] k = "ok2" ->
           (X43 :> Text(" Bob ")) @@ Rated("3 stars") @@ (WII :> Text("Nice"))
           @@ (MYE_SPAN :> Text("Average pizza, could be better"))
      [] k = "r7" ->
           (D4R :> Text("Carol")) @@ Rated("7 stars")
           @@ (WII :> Text(GoodText)) @@ (RSQ :> Text("a month ago"))
      [] k = "norating" ->
           (D4R :> Text("Eve")) @@ (WII :> Text(GoodText))
           @@ (RSQ :> Text("2 weeks ago"))
      [] k = "short" ->
           (D4R :> Text("Frank")) @@ Rated("4 stars") @@ (WII :> Text("Nice"))
      [] k = "noname" ->
           Rated("5 stars") @@ (WII :> Text(GoodText))
           @@ (RSQ :> Text("2 weeks ago"))
      [] OTHER ->
           (D4R :> Text("Grace")) @@ Rated("4 stars")
           @@ (WII :> Text(GoodText)) @@ (P34 :> Text("a month ago"))

Container(k) == [sel |-> Classes(k), el |-> Children(k)]

Kinds == {"ok", "ok2", "r7", "norating", "short", "noname", "alt"}

(***************************************************************************)
(* The DOM: the first `loaded` containers of the page.  An element is      *)
(* named by its index in document order.                                   *)
(***************************************************************************)
Dom(pg, n) == SubSeq(pg, 1, n)

\* driver.find_elements(By.CSS_SELECTOR, "s1, s2, ..."): the indices of the
\* elements matching any selector of sels, in document order.  Every card of
\* the modelled pages matches .jftiEf and holds at most one element of each
\* child selector, so the cards are the longest match of any selector list.
RECURSIVE find_elements_from(_, _, _)
find_elements_from(dom, sels, i) ==
    IF i > Len(dom) THEN <<>>
    ELSE (IF Classes(dom[i]) \cap sels # {} THEN <<i>> ELSE <<>>)
         \o find_elements_from(dom, sels, i + 1)

find_elements(dom, sels) == find_elements_from(dom, sels, 1)

\* the first non-empty find_elements over a list of selectors, tried in order
RECURSIVE first_nonempty(_, _, _)
first_nonempty(dom, selectors, j) ==
    IF j > Len(selectors) THEN <<>>
    ELSE IF find_elements(dom, {selectors[j]}) # <<>>
         THEN find_elements(dom, {selectors[j]})
         ELSE first_nonempty(dom, selectors, j + 1)

\* the largest len(find_elements(selector)) over a list of selectors
RECURSIVE max_count(_, _, _)
max_count(dom, selectors, j) ==
    IF j > Len(selectors) THEN 0
    ELSE LET n == Len(find_elements(dom, {selectors[j]}))
             m == max_count(dom, selectors, j + 1)
         IN IF n > m THEN n ELSE m

Min(a, b) == IF a < b THEN a ELSE b
Max(a, b) == IF a > b THEN a ELSE b

\* the last n elements of reviews instead of the first n
TakeLast(s, n) == SubSeq(s, Len(s) - Min(n, Len(s)) + 1, Len(s))

\* reviews[:n] for n >= 0
Take(s, n) == SubSeq(s, 1, Min(n, Len(s)))

\* the default of the lookup taken whatever the identity holds
shop_name_default(info) == "Unknown Business"

\* self.business_info.get('name', 'Unknown Business')
shop_name_of(info) ==
    IF "name" \in DOMAIN info THEN info["name"] ELSE "Unknown Business"

Review(name, shop, rating, text, date) ==
    [reviewer_name |-> name, shop_name |-> shop, rating |-> rating,
     review_text |-> text, review_date |-> date]

\* the `.rsqaWe, .p34Ii` lookup: the first element matching either selector
date_elem(c) ==
    IF RSQ \in DOMAIN c.el THEN <<c.el[RSQ]>>
    ELSE IF P34 \in DOMAIN c.el THEN <<c.el[P34]>> ELSE <<>>

(***************************************************************************)
(* WorkingScraper: field extraction and container processing.              *)
(***************************************************************************)
Working_name_selectors ==
    <<D4R, X43, ".TSUbDb", ".WNxzHc", "a[data-value]", ".fontBodyMedium a",
      "span[data-value]">>

\* the loop without its inner try: a raising strategy ends the extraction
RECURSIVE Working_name_unguarded(_, _, _)
Working_name_unguarded(c, i, name) ==
    IF i > Len(Working_name_selectors) THEN name
    ELSE LET s == Working_name_selectors[i] IN
         IF s \notin DOMAIN c.el THEN None
         ELSE LET n == strip(c.el[s].text) IN
              IF n # "" /\ Len(n) > 1 /\ lower(n) \notin {"google user", "user"}
              THEN n
              ELSE Working_name_unguarded(c, i + 1, n)

\* the for loop over name_selectors from index i; name is the variable so far
RECURSIVE Working_name(_, _, _)
Working_name(c, i, name) ==
    IF i > Len(Working_name_selectors) THEN name
    ELSE LET s == Working_name_selectors[i] IN
         IF s \notin DOMAIN c.el THEN Working_name(c, i + 1, name)
         ELSE LET n == strip(c.el[s].text) IN
              IF n # "" /\ Len(n) > 1 /\ lower(n) \notin {"google user", "user"}
              THEN n
              ELSE Working_name(c, i + 1, n)

\* rating: one lookup, the first integer of its aria-label
Working_rating(c) ==
    IF STAR_IMG \notin DOMAIN c.el THEN NoRating
    ELSE IF c.el[STAR_IMG].aria = None THEN NoRating
    ELSE first_int(c.el[STAR_IMG].aria)

Working_text_selectors == <<WII, MYE_SPAN, RSQ, ".fontBodyMedium span">>

RECURSIVE Working_text(_, _, _)
Working_text(c, i, text) ==
    IF i > Len(Working_text_selectors) THEN text
    ELSE LET s == Working_text_selectors[i] IN
         IF s \notin DOMAIN c.el THEN Working_text(c, i + 1, text)
         ELSE LET t == strip(c.el[s].text) IN
              IF t # "" /\ Len(t) > 10 THEN t
              ELSE Working_text(c, i + 1, t)

Working_date(c) ==
    IF date_elem(c) = <<>> THEN "Recent" ELSE strip(date_elem(c)[1].text)

\* extract_single_review: <<>> for None, else the one review
Working_extract_single_review(c, info) ==
    LET name   == Working_name(c, 1, None)
        rating == Working_rating(c)
        text   == Working_text(c, 1, None)
    IN IF name = None \/ name = "" THEN <<>>
       ELSE IF rating = NoRating \/ rating = 0 THEN <<>>
       ELSE IF text = None \/ text = "" THEN <<>>
       ELSE <<Review(name, shop_name_of(info), rating, text, Working_date(c))>>

\* "Hard limit to prevent memory issues"
WorkingHardLimit == 500

\* extract_all_reviews without its alternative selectors
Working_containers_no_alt(dom) == find_elements(dom, {DRI})

\* the containers extract_all_reviews processes
Working_containers(dom) ==
    IF find_elements(dom, {DRI}) # <<>> THEN find_elements(dom, {DRI})
    ELSE first_nonempty(dom, <<JFT, MYE, FBM>>, 1)

\* the loop leaving at the first container that yields no record
RECURSIVE Working_extract_loop_break(_, _, _, _, _)
Working_extract_loop_break(dom, containers, i, info, reviews) ==
    IF i > Len(containers) \/ Len(reviews) >= 500 THEN reviews
    ELSE LET review == Working_extract_single_review(Container(dom[containers[i]]), info)
         IN IF review = <<>> THEN reviews
            ELSE Working_extract_loop_break(dom, containers, i + 1, info,
                                            reviews \o review)

\* the loop of extract_all_reviews from position i of containers
RECURSIVE Working_extract_loop(_, _, _, _, _)
Working_extract_loop(dom, containers, i, info, reviews) ==
    IF i > Len(containers) \/ Len(reviews) >= WorkingHardLimit THEN reviews
    ELSE Working_extract_loop(dom, containers, i + 1, info,
            reviews \o Working_extract_single_review(Container(dom[containers[i]]), info))

Working_extract_all_reviews(dom, info) ==
    Working_extract_loop(dom, Working_containers(dom), 1, info, <<>>)

(***************************************************************************)
(* RenderScraper: field extraction and container processing.               *)
(***************************************************************************)
Render_name_selectors == <<D4R, X43, "a[data-value]">>

RECURSIVE Render_name(_, _, _)
Render_name(c, i, name) ==
    IF i > Len(Render_name_selectors) THEN name
    ELSE LET s == Render_name_selectors[i] IN
         IF s \notin DOMAIN c.el THEN Render_name(c, i + 1, name)
         ELSE LET n == strip(c.el[s].text) IN
              IF n # "" /\ Len(n) > 1 THEN n
              ELSE Render_name(c, i + 1, n)

Render_rating(c) ==
    IF STAR_IMG \notin DOMAIN c.el THEN NoRating
    ELSE IF c.el[STAR_IMG].aria = None THEN NoRating
    ELSE first_int(c.el[STAR_IMG].aria)

Render_text_selectors == <<WII, MYE_SPAN, RSQ>>

RECURSIVE Render_text(_, _, _)
Render_text(c, i, text) ==
    IF i > Len(Render_text_selectors) THEN text
    ELSE LET s == Render_text_selectors[i] IN
         IF s \notin DOMAIN c.el THEN Render_text(c, i + 1, text)
         ELSE LET t == strip(c.el[s].text) IN
              IF t # "" /\ Len(t) > 10 THEN t
              ELSE Render_text(c, i + 1, t)

Render_date(c) ==
    IF date_elem(c) = <<>> THEN "Recent" ELSE strip(date_elem(c)[1].text)

Render_extract_single_review_fast(c, info) ==
    LET name   == Render_name(c, 1, None)
        rating == Render_rating(c)
        text   == Render_text(c, 1, None)
    IN IF name = None \/ name = "" THEN <<>>
       ELSE IF rating = NoRating \/ rating = 0 THEN <<>>
       ELSE IF text = None \/ text = "" THEN <<>>
       ELSE <<Review(name, shop_name_of(info), rating, text, Render_date(c))>>

Render_containers(dom) ==
    IF find_elements(dom, {DRI}) # <<>> THEN find_elements(dom, {DRI})
    ELSE find_elements(dom, {JFT, MYE})

RECURSIVE Render_extract_loop(_, _, _, _, _)
Render_extract_loop(dom, containers, i, info, reviews) ==
    IF i > Len(containers) THEN reviews
    ELSE Render_extract_loop(dom, containers, i + 1, info,
            reviews \o Render_extract_single_review_fast(Container(dom[containers[i]]), info))

Render_extract_reviews_fast(dom, info) ==
    Render_extract_loop(dom, Render_containers(dom), 1, info, <<>>)

(***************************************************************************)
(* UniversalScraper: field extraction, validation, container processing.   *)
(***************************************************************************)
Universal_name_selectors ==
    <<D4R, X43, ".TSUbDb", ".WNxzHc", ".NuEeue", ".fontBodyMedium a",
      ".fontBodyMedium span", "a[data-value]", "[data-href*=\"contrib\"]">>

RECURSIVE Universal_name_from(_, _)
Universal_name_from(c, i) ==
    IF i > Len(Universal_name_selectors) THEN None
    ELSE LET s == Universal_name_selectors[i] IN
         IF s \notin DOMAIN c.el THEN Universal_name_from(c, i + 1)
         ELSE LET n == strip(c.el[s].text) IN
              IF n # "" /\ Len(n) > 1 /\ ~isdigit(n)
                 /\ lower(n) \notin {"google user", "user", "local guide"}
              THEN n
              ELSE Universal_name_from(c, i + 1)

Universal_extract_reviewer_name(c) == Universal_name_from(c, 1)

Universal_rating_selectors ==
    <<STAR_IMG, STAR_ANY, ".kvMYJc", "[data-value]", ".Fam1ne .fzvQIb">>

\* elem.get_attribute('aria-label') or elem.get_attribute('data-value') or '';
\* no element of the modelled pages carries a data-value attribute
aria_or_empty(e) == IF e.aria = None THEN "" ELSE e.aria

RECURSIVE Universal_rating_from(_, _)
Universal_rating_from(c, i) ==
    IF i > Len(Universal_rating_selectors) THEN NoRating
    ELSE LET s == Universal_rating_selectors[i] IN
         IF s \notin DOMAIN c.el THEN Universal_rating_from(c, i + 1)
         ELSE LET r == first_int(aria_or_empty(c.el[s])) IN
              IF r # NoRating /\ 1 <= r /\ r <= 5 THEN r
              ELSE Universal_rating_from(c, i + 1)

Universal_extract_rating(c) == Universal_rating_from(c, 1)

Universal_text_selectors ==
    <<WII, MYE_SPAN, RSQ, ".ODSEW-ShBeI-text", ".Jtu6Td", ".fontBodyMedium span",
      "[data-expandable-section]", ".review-text">>

RECURSIVE Universal_text_from(_, _)
Universal_text_from(c, i) ==
    IF i > Len(Universal_text_selectors) THEN None
    ELSE LET s == Universal_text_selectors[i] IN
         IF s \notin DOMAIN c.el THEN Universal_text_from(c, i + 1)
         ELSE LET t == strip(c.el[s].text) IN
              IF t # "" /\ Len(t) > 10 /\ ~isdigit(t) THEN t
              ELSE Universal_text_from(c, i + 1)

Universal_extract_review_text(c) == Universal_text_from(c, 1)

Universal_date_selectors ==
    <<RSQ, P34, ".DU9Pgb", ".dehysf", ".WMbnJf", ".RHo1pe", ".fontCaption">>

RECURSIVE Universal_date_from(_, _)
Universal_date_from(c, i) ==
    IF i > Len(Universal_date_selectors) THEN "Recent"
    ELSE LET s == Universal_date_selectors[i] IN
         IF s \notin DOMAIN c.el THEN Universal_date_from(c, i + 1)
         ELSE LET d == strip(c.el[s].text) IN
              IF d # "" /\ has_date_word(d) THEN d
              ELSE Universal_date_from(c, i + 1)

Universal_extract_date(c) == Universal_date_from(c, 1)

Universal_extract_single_review(c, info) ==
    LET name   == Universal_extract_reviewer_name(c)
        rating == Universal_extract_rating(c)
        text   == Universal_extract_review_text(c)
    IN IF name = None \/ name = "" THEN <<>>
       ELSE IF rating = NoRating \/ rating = 0 THEN <<>>
       ELSE IF text = None \/ text = "" THEN <<>>
       ELSE <<Review(name, shop_name_of(info), rating, text,
                     Universal_extract_date(c))>>

Universal_is_valid_review(review) ==
    /\ review.reviewer_name # ""
    /\ review.reviewer_name \notin {"Unknown", "User", "Google User"}
    /\ review.review_text # ""
    /\ Len(review.review_text) >= 10
    /\ review.rating # 0
    /\ 1 <= review.rating /\ review.rating <= 5

Universal_containers(dom) ==
    first_nonempty(dom, <<DRI, JFT, MYE, FBM, WII, JSR>>, 1)

RECURSIVE Universal_extract_loop(_, _, _, _, _)
Universal_extract_loop(dom, containers, i, info, reviews) ==
    IF i > Len(containers) THEN reviews
    ELSE LET r == Universal_extract_single_review(Container(dom[containers[i]]), info)
         IN Universal_extract_loop(dom, containers, i + 1, info,
               IF r # <<>> /\ Universal_is_valid_review(r[1])
               THEN reviews \o r ELSE reviews)

Universal_extract_all_reviews(dom, info) ==
    Universal_extract_loop(dom, Universal_containers(dom), 1, info, <<>>)

(***************************************************************************)
(* RealTimeScraper: field extraction and container processing.             *)
(***************************************************************************)
RealTime_name_selectors ==
    <<D4R, X43, ".TSUbDb", ".WNxzHc", "[data-value]", ".NuEeue",
      ".fontBodyMedium a", ".fontBodyMedium span", "a[data-value]",
      ".review-dialog-list .fontBodyMedium", ".section-review-title",
      ".review-author", ".author-name", "span[data-value]",
      ".gws-localreviews__google-review .fontBodyMedium", "a[href*=\"contrib\"]">>

RECURSIVE RealTime_name_from(_, _)
RealTime_name_from(c, i) ==
    IF i > Len(RealTime_name_selectors) THEN None
    ELSE LET s == RealTime_name_selectors[i] IN
         IF s \notin DOMAIN c.el THEN RealTime_name_from(c, i + 1)
         ELSE LET n == strip(c.el[s].text) IN
              IF n # "" /\ Len(n) > 1 /\ ~isdigit(n)
                 /\ lower(n) \notin {"google user", "user", "local guide", "reviewer"}
              THEN n
              ELSE RealTime_name_from(c, i + 1)

RealTime_extract_reviewer_name(c) == RealTime_name_from(c, 1)

RealTime_rating_selectors == <<STAR_IMG, STAR_ANY, ".kvMYJc">>

RECURSIVE RealTime_rating_from(_, _)
RealTime_rating_from(c, i) ==
    IF i > Len(RealTime_rating_selectors) THEN NoRating
    ELSE LET s == RealTime_rating_selectors[i] IN
         IF s \notin DOMAIN c.el THEN RealTime_rating_from(c, i + 1)
         ELSE LET r == first_int(aria_or_empty(c.el[s])) IN
              IF r # NoRating /\ 1 <= r /\ r <= 5 THEN r
              ELSE RealTime_rating_from(c, i + 1)

RealTime_extract_rating(c) == RealTime_rating_from(c, 1)

RealTime_text_selectors ==
    <<WII, MYE_SPAN, RSQ, ".ODSEW-ShBeI-text", ".Jtu6Td", ".fontBodyMedium span",
      "[data-expandable-section]", ".review-dialog-list .fontBodyMedium span",
      ".section-review-text", ".review-content", ".review-text",
      ".gws-localreviews__google-review .fontBodyMedium span",
      ".review-full-text", "span[jsaction*=\"expand\"]">>

\* text.lower().startswith('translate'): no text of the modelled pages does
starts_with_translate(s) == FALSE

RECURSIVE RealTime_text_from(_, _)
RealTime_text_from(c, i) ==
    IF i > Len(RealTime_text_selectors) THEN None
    ELSE LET s == RealTime_text_selectors[i] IN
         IF s \notin DOMAIN c.el THEN RealTime_text_from(c, i + 1)
         ELSE LET t == strip(c.el[s].text) IN
              IF t # "" /\ Len(t) > 10 /\ ~isdigit(t)
                 /\ ~starts_with_translate(t) /\ ~has_star(t)
              THEN t
              ELSE RealTime_text_from(c, i + 1)

RealTime_extract_review_text(c) == RealTime_text_from(c, 1)

RealTime_date_selectors == <<RSQ, P34, ".DU9Pgb", ".dehysf", ".WMbnJf">>

RECURSIVE RealTime_date_from(_, _)
RealTime_date_from(c, i) ==
    IF i > Len(RealTime_date_selectors) THEN "Recent"
    ELSE LET s == RealTime_date_selectors[i] IN
         IF s \notin DOMAIN c.el THEN RealTime_date_from(c, i + 1)
         ELSE LET d == strip(c.el[s].text) IN
              IF d # "" /\ has_date_word(d) THEN d
              ELSE RealTime_date_from(c, i + 1)

RealTime_extract_date(c) == RealTime_date_from(c, 1)

\* the child elements of a container that carry visible text, in document order
ChildSelectors == <<D4R, X43, RSQ, P34, WII, MYE_SPAN>>

\* len(elem.text.strip()) of a container: its children's texts, one per line
RECURSIVE elem_text_len_from(_, _)
elem_text_len_from(c, i) ==
    IF i > Len(ChildSelectors) THEN 0
    ELSE (IF ChildSelectors[i] \in DOMAIN c.el
          THEN Len(strip(c.el[ChildSelectors[i]].text)) + 1 ELSE 0)
         + elem_text_len_from(c, i + 1)

elem_text_len(c) == Max(elem_text_len_from(c, 1) - 1, 0)

\* any(word in elem.text.lower() for word in ['star', 'ago', 'month', 'week', 'day'])
elem_text_has_review_word(c) ==
    \E s \in DOMAIN c.el : has_date_word(c.el[s].text) \/ has_star(c.el[s].text)

\* 'star' in innerHTML.lower() or 'rating' in innerHTML.lower()
\* or elem.find_elements('[role="img"]'): the markup of a star widget
has_star_markup(c) == \E s \in DOMAIN c.el : c.el[s].aria # None /\ has_star(c.el[s].aria)

RealTime_container_selectors ==
    <<DRI, JFT, MYE, FBM, WII, JSR, ".ODSEW-ShBeI", "[role=\"listitem\"]",
      "div[data-review-id]", ".review-dialog-list > div", ".section-review",
      ".review-item", ".gws-localreviews__google-review", "[data-hveid] > div",
      ".Jtu6Td">>

RealTime_keep(c) == elem_text_len(c) > 20 /\ elem_text_has_review_word(c)

RECURSIVE RealTime_valid(_, _, _)
RealTime_valid(dom, elems, i) ==
    IF i > Len(elems) THEN <<>>
    ELSE (IF RealTime_keep(Container(dom[elems[i]])) THEN <<elems[i]>> ELSE <<>>)
         \o RealTime_valid(dom, elems, i + 1)

\* the first selector whose elements hold a valid container gives the containers
RECURSIVE RealTime_containers_from(_, _)
RealTime_containers_from(dom, j) ==
    IF j > Len(RealTime_container_selectors) THEN <<>>
    ELSE LET valid == RealTime_valid(dom,
                         find_elements(dom, {RealTime_container_selectors[j]}), 1)
         IN IF valid # <<>> THEN valid ELSE RealTime_containers_from(dom, j + 1)

RealTime_containers(dom) == RealTime_containers_from(dom, 1)

\* "Hard limit to prevent over-extraction"
RealTimeHardLimit == 100

\* one container of the loop of extract_reviews: <<>> when it is skipped
RealTime_extract_one(c, info) ==
    LET name   == RealTime_extract_reviewer_name(c)
        rating == RealTime_extract_rating(c)
        text   == RealTime_extract_review_text(c)
    IN IF name = None \/ name = "" \/ name \in {"Unknown", "User"} THEN <<>>
       ELSE IF rating = NoRating \/ rating = 0 THEN <<>>
       ELSE IF text = None \/ text = "" \/ Len(text) < 10 THEN <<>>
       ELSE <<Review(name, shop_name_of(info), rating, text,
                     RealTime_extract_date(c))>>

RECURSIVE RealTime_extract_loop(_, _, _, _, _)
RealTime_extract_loop(dom, containers, i, info, reviews) ==
    IF i > Len(containers) \/ Len(reviews) >= RealTimeHardLimit THEN reviews
    ELSE RealTime_extract_loop(dom, containers, i + 1, info,
            reviews \o RealTime_extract_one(Container(dom[containers[i]]), info))

RealTime_extract_reviews(dom, info) ==
    RealTime_extract_loop(dom, RealTime_containers(dom), 1, info, <<>>)

(***************************************************************************)
(* SimpleMapscraper: extract_reviews_direct and the filter of              *)
(* scrape_reviews.                                                         *)
(***************************************************************************)
SimpleMaps_review_selectors ==
    <<DRI, JFT, MYE, FBM, WII, JSR, ".gws-localreviews__google-review",
      "[role=\"listitem\"]", ".ODSEW-ShBeI">>

SimpleMaps_keep(c) == elem_text_len(c) > 20 /\ has_star_markup(c)

RECURSIVE SimpleMaps_valid(_, _, _)
SimpleMaps_valid(dom, elems, i) ==
    IF i > Len(elems) THEN <<>>
    ELSE (IF SimpleMaps_keep(Container(dom[elems[i]])) THEN <<elems[i]>> ELSE <<>>)
         \o SimpleMaps_valid(dom, elems, i + 1)

\* review_containers: the valid elements of every selector, one after another
RECURSIVE SimpleMaps_collect(_, _)
SimpleMaps_collect(dom, j) ==
    IF j > Len(SimpleMaps_review_selectors) THEN <<>>
    ELSE SimpleMaps_valid(dom, find_elements(dom, {SimpleMaps_review_selectors[j]}), 1)
         \o SimpleMaps_collect(dom, j + 1)

\* container.location: the cards of a page lie one below the other
location(i) == <<8, 100 * i>>

\* "Remove duplicates by checking element location"
RECURSIVE SimpleMaps_unique(_, _, _, _)
SimpleMaps_unique(elems, i, seen_locations, unique_containers) ==
    IF i > Len(elems) THEN unique_containers
    ELSE IF location(elems[i]) \notin seen_locations /\ location(elems[i]) # <<0, 0>>
         THEN SimpleMaps_unique(elems, i + 1,
                 seen_locations \cup {location(elems[i])},
                 Append(unique_containers, elems[i]))
         ELSE SimpleMaps_unique(elems, i + 1, seen_locations, unique_containers)

SimpleMaps_containers(dom) ==
    SimpleMaps_unique(SimpleMaps_collect(dom, 1), 1, {}, <<>>)

SimpleMaps_name_selectors ==
    <<D4R, X43, ".TSUbDb", ".WNxzHc", "[data-value]", ".NuEeue", ".TSUbDb a",
      ".gws-localreviews__google-review .TSUbDb">>

RECURSIVE SimpleMaps_name(_, _)
SimpleMaps_name(c, i) ==
    IF i > Len(SimpleMaps_name_selectors) THEN None
    ELSE LET s == SimpleMaps_name_selectors[i] IN
         IF s \notin DOMAIN c.el THEN SimpleMaps_name(c, i + 1)
         ELSE LET n == strip(c.el[s].text) IN
              IF n # "" /\ Len(n) > 1 /\ ~isdigit(n) THEN n
              ELSE SimpleMaps_name(c, i + 1)

SimpleMaps_rating_selectors == <<STAR_IMG, STAR_ANY, ".kvMYJc", "[data-value]">>

\* rating_elem.get_attribute('aria-label') or ...('data-value') or rating_elem.text
aria_or_text(e) == IF e.aria = None THEN e.text ELSE e.aria

\* the rating loop: rating keeps the last parsed number when none is in 1..5
RECURSIVE SimpleMaps_rating(_, _, _)
SimpleMaps_rating(c, i, rating) ==
    IF i > Len(SimpleMaps_rating_selectors) THEN rating
    ELSE LET s == SimpleMaps_rating_selectors[i] IN
         IF s \notin DOMAIN c.el THEN SimpleMaps_rating(c, i + 1, rating)
         ELSE LET r == IF aria_or_text(c.el[s]) = "" THEN NoRating
                       ELSE first_int(aria_or_text(c.el[s])) IN
              IF r = NoRating THEN SimpleMaps_rating(c, i + 1, rating)
              ELSE IF 1 <= r /\ r <= 5 THEN r
              ELSE SimpleMaps_rating(c, i + 1, r)

SimpleMaps_text_selectors ==
    <<WII, MYE_SPAN, RSQ, ".ODSEW-ShBeI-text", ".Jtu6Td", MYE,
      "[data-expandable-section]", ".gws-localreviews__google-review .Jtu6Td">>

RECURSIVE SimpleMaps_text(_, _)
SimpleMaps_text(c, i) ==
    IF i > Len(SimpleMaps_text_selectors) THEN None
    ELSE LET s == SimpleMaps_text_selectors[i] IN
         IF s \notin DOMAIN c.el THEN SimpleMaps_text(c, i + 1)
         ELSE LET t == strip(c.el[s].text) IN
              IF t # "" /\ Len(t) > 10 /\ ~isdigit(t) THEN t
              ELSE SimpleMaps_text(c, i + 1)

SimpleMaps_date_selectors ==
    <<RSQ, P34, ".DU9Pgb", ".dehysf", ".WMbnJf", ".RHo1pe", ".dehysf.lTi8oc">>

RECURSIVE SimpleMaps_date(_, _)
SimpleMaps_date(c, i) ==
    IF i > Len(SimpleMaps_date_selectors) THEN "Recent"
    ELSE LET s == SimpleMaps_date_selectors[i] IN
         IF s \notin DOMAIN c.el THEN SimpleMaps_date(c, i + 1)
         ELSE LET d == strip(c.el[s].text) IN
              IF d # "" /\ has_date_word(d) THEN d
              ELSE SimpleMaps_date(c, i + 1)

\* one container of the loop of extract_reviews_direct: <<>> when it is skipped
SimpleMaps_extract_one(c, info) ==
    LET name   == SimpleMaps_name(c, 1)
        rating == SimpleMaps_rating(c, 1, NoRating)
        text   == SimpleMaps_text(c, 1)
    IN IF name = None \/ name \in {"Unknown", "User", ""} THEN <<>>
       ELSE IF rating = NoRating THEN <<>>
       ELSE IF text = None \/ text = "" \/ Len(text) < 10 THEN <<>>
       ELSE <<Review(name, shop_name_of(info), rating, text, SimpleMaps_date(c, 1))>>

\* "Hard limit"
SimpleMapsHardLimit == 100

RECURSIVE SimpleMaps_extract_loop(_, _, _, _, _)
SimpleMaps_extract_loop(dom, containers, i, info, reviews) ==
    IF i > Len(containers) \/ Len(reviews) >= SimpleMapsHardLimit THEN reviews
    ELSE SimpleMaps_extract_loop(dom, containers, i + 1, info,
            reviews \o SimpleMaps_extract_one(Container(dom[containers[i]]), info))

SimpleMaps_extract_reviews_direct(dom, info) ==
    SimpleMaps_extract_loop(dom, SimpleMaps_containers(dom), 1, info, <<>>)

\* "Filter for real reviews only"
SimpleMaps_is_real(review) ==
    /\ review.reviewer_name \notin {"Unknown", "User", ""}
    /\ Len(review.review_text) > 15
    /\ review.rating # NoRating

(***************************************************************************)
(* DebugScraper: extract_review_content and the fallbacks of               *)
(* scrape_reviews.  Its records carry no shop_name.                        *)
(***************************************************************************)
DebugReview(name, rating, text, date) ==
    [reviewer_name |-> name, rating |-> rating, review_text |-> text,
     review_date |-> date]

Debug_container_selectors == <<DRI, JFT, MYE, JSR>>

Debug_containers(dom) == first_nonempty(dom, Debug_container_selectors, 1)

Debug_name_selectors ==
    <<D4R, "[data-attrid=\"title\"]", X43, ".TSUbDb a", ".TSUbDb", ".WNxzHc span",
      ".WNxzHc">>

RECURSIVE Debug_name(_, _, _)
Debug_name(c, i, default) ==
    IF i > Len(Debug_name_selectors) THEN default
    ELSE LET s == Debug_name_selectors[i] IN
         IF s \in DOMAIN c.el /\ c.el[s].text # "" /\ Len(strip(c.el[s].text)) > 0
         THEN strip(c.el[s].text)
         ELSE Debug_name(c, i + 1, default)

Debug_rating_selectors ==
    <<STAR_IMG, ".kvMYJc[role=\"img\"]", "[aria-label*=\"stars\"]", ".lTi8oc">>

\* rating_text[0].isdigit() and int(rating_text.split()[0]); NoRating where the
\* text does not start with a digit
leading_int(s) ==
    CASE s = "5 stars" -> 5
      [] s = "4 stars" -> 4
      [] s = "3 stars" -> 3
      [] s = "7 stars" -> 7
      [] s = "0 stars" -> 0
      [] OTHER -> NoRating

RECURSIVE Debug_rating(_, _)
Debug_rating(c, i) ==
    IF i > Len(Debug_rating_selectors) THEN 4
    ELSE LET s == Debug_rating_selectors[i] IN
         IF s \in DOMAIN c.el /\ c.el[s].aria # None /\ c.el[s].aria # ""
            /\ leading_int(c.el[s].aria) # NoRating
         THEN leading_int(c.el[s].aria)
         ELSE Debug_rating(c, i + 1)

Debug_text_selectors ==
    <<WII, MYE_SPAN, RSQ, ".ODSEW-ShBeI-text", ".ODSEW-ShBeI-ShBeI-content",
      ".review-text", "[data-expandable-section]">>

RECURSIVE Debug_text(_, _, _)
Debug_text(c, i, default) ==
    IF i > Len(Debug_text_selectors) THEN default
    ELSE LET s == Debug_text_selectors[i] IN
         IF s \in DOMAIN c.el /\ c.el[s].text # "" /\ Len(strip(c.el[s].text)) > 10
         THEN strip(c.el[s].text)
         ELSE Debug_text(c, i + 1, default)

Debug_date_selectors ==
    <<RSQ, P34, ".DU9Pgb", ".ODSEW-ShBeI-RgZmSc-date", ".dehysf", ".WMbnJf">>

RECURSIVE Debug_date(_, _)
Debug_date(c, i) ==
    IF i > Len(Debug_date_selectors) THEN "Recent"
    ELSE LET s == Debug_date_selectors[i] IN
         IF s \in DOMAIN c.el /\ c.el[s].text # "" /\ Len(strip(c.el[s].text)) > 0
         THEN strip(c.el[s].text)
         ELSE Debug_date(c, i + 1)

\* every container yields a record: a missing field takes its default
RECURSIVE Debug_extract_loop(_, _, _, _)
Debug_extract_loop(dom, containers, i, review_data_list) ==
    IF i > Len(containers) THEN review_data_list
    ELSE LET c    == Container(dom[containers[i]])
             name == Debug_name(c, 1, "Reviewer_" \o ToString(i))
         IN Debug_extract_loop(dom, containers, i + 1,
               Append(review_data_list,
                      DebugReview(name, Debug_rating(c, 1),
                                  Debug_text(c, 1, "Review from " \o name),
                                  Debug_date(c, 1))))

Debug_extract_review_content(dom, review_containers) ==
    Debug_extract_loop(dom, review_containers, 1, <<>>)

\* [r for r in reviews if r['reviewer_name'] != 'Unknown' and len(r['review_text']) > 20]
Debug_real_reviews(reviews) ==
    SelectSeq(reviews,
              LAMBDA r : r.reviewer_name # "Unknown" /\ Len(r.review_text) > 20)

\* "Fallback: Create sample data"
Debug_sample_reviews ==
    << DebugReview("Sample Customer 1", 4,
          "Good food and service. Pizza was delivered hot and on time.",
          "2 months ago"),
       DebugReview("Sample Customer 2", 5,
          "Excellent experience! Great taste and fast delivery.", "1 month ago"),
       DebugReview("Sample Customer 3", 3,
          "Average pizza. Could be better but not bad.", "3 weeks ago") >>

\* the value scrape_reviews returns once the scrolling is over
Debug_result(dom) ==
    LET all_review_elements == Debug_containers(dom)
        reviews == Debug_extract_review_content(dom, all_review_elements)
        real_reviews == Debug_real_reviews(reviews)
    IN IF all_review_elements # <<>> /\ real_reviews # <<>> THEN real_reviews
       ELSE IF all_review_elements # <<>> /\ reviews # <<>> THEN reviews
       ELSE Debug_sample_reviews

(***************************************************************************)
(* Crawl4AIScraper: the cleaning of the crawler's output and               *)
(* fallback_html_parsing.  Its records carry no shop_name.                 *)
(***************************************************************************)
\* the filter-and-clean loop over reviews[:max_reviews]; an item of the
\* extracted content is a record with the four schema fields
Crawl4AI_cleaned_reviews(reviews, n) ==
    LET kept == SelectSeq(Take(reviews, n),
                   LAMBDA r : r.reviewer_name # "" /\ r.review_text # ""
                              /\ Len(r.review_text) > 10)
    IN [i \in 1..Len(kept) |->
          DebugReview(kept[i].reviewer_name, kept[i].rating,
                      kept[i].review_text, kept[i].review_date)]

\* re.findall over page_source: one match per rendered element, in order
RECURSIVE findall(_, _, _, _)
findall(dom, i, sel, attr) ==
    IF i > Len(dom) THEN <<>>
    ELSE LET c == Container(dom[i]) IN
         (IF sel \in DOMAIN c.el /\ c.el[sel][attr] \notin {None, ""}
          THEN <<c.el[sel][attr]>> ELSE <<>>)
         \o findall(dom, i + 1, sel, attr)

\* "Limit to 50 reviews"
Crawl4AIFallbackLimit == 50

RECURSIVE Crawl4AI_fallback_loop(_, _, _, _, _, _)
Crawl4AI_fallback_loop(names, ratings, texts, i, min_length, reviews) ==
    IF i > min_length THEN reviews
    ELSE Crawl4AI_fallback_loop(names, ratings, texts, i + 1, min_length,
            IF Len(texts[i]) > 10
            THEN Append(reviews,
                        DebugReview(names[i], leading_int(ratings[i]), texts[i],
                                    "Recent"))
            ELSE reviews)

\* fallback_html_parsing: the i-th name, rating and text found anywhere in the
\* page make the i-th record
Crawl4AI_fallback_html_parsing(dom) ==
    LET names   == findall(dom, 1, D4R, "text")
        ratings == findall(dom, 1, STAR_IMG, "aria")
        texts   == findall(dom, 1, WII, "text")
        min_length == Min(Len(names), Min(Len(ratings), Len(texts)))
    IN Take(Crawl4AI_fallback_loop(names, ratings, texts, 1, min_length, <<>>),
            Crawl4AIFallbackLimit)

(***************************************************************************)
(* The business name.  h1 is the text of the page's h1 element, None when  *)
(* the lookup raises (no such element, or the wait times out).             *)
(***************************************************************************)
Working_get_business_name(h) == IF h = None THEN "Unknown Business" ELSE strip(h)

Render_get_business_name(h) == IF h = None THEN "Unknown Business" ELSE strip(h)

\* the h1 is the only element of name_selectors the modelled pages hold
Universal_extract_business_name(h) ==
    IF h # None /\ strip(h) # "" /\ Len(strip(h)) > 1 THEN strip(h)
    ELSE "Unknown Business"

\* business_element.text, unstripped, and 'Unknown' in the except branch
Debug_business_name(h) == IF h = None THEN "Unknown" ELSE h

\* the inline try/except of Crawl4AIScraper, SimpleMapscraper, RealTimeScraper
Inline_business_name(h) == IF h = None THEN "Unknown Business" ELSE strip(h)

business_name(v, h) ==
    CASE v = "working" -> Working_get_business_name(h)
      [] v = "render" -> Render_get_business_name(h)
      [] v = "universal" -> Universal_extract_business_name(h)
      [] v = "debug" -> Debug_business_name(h)
      [] OTHER -> Inline_business_name(h)

Url == "https://www.google.com/maps/place/pizza"

(***************************************************************************)
(* The pagination loops: the number of rounds, the count of a round and    *)
(* the tests that end the loop.                                            *)
(***************************************************************************)
\* the round caps with min and max exchanged in the two computed ones
max_scrolls_swapped(v, n) ==
    CASE v = "working" -> Max(60, Min(25, n \div 8))
      [] v = "render" -> Max(40, Min(15, n \div 10))
      [] v = "crawl4ai" -> 10
      [] v = "debug" -> 25
      [] v = "simplemaps" -> 30
      [] v = "universal" -> 40
      [] OTHER -> 30

\* range(max_scrolls) / range(N)
max_scrolls(v, n) ==
    CASE v = "working" -> Min(60, Max(25, n \div 8))
      [] v = "render" -> Min(40, Max(15, n \div 10))
      [] v = "crawl4ai" -> 10
      [] v = "debug" -> 25
      [] v = "simplemaps" -> 30
      [] v = "universal" -> 40
      [] OTHER -> 30

\* review_count / max_found / total_found / len(review_elements) of a round
review_count(v, dom) ==
    CASE v = "working" -> max_count(dom, <<DRI, JFT, MYE>>, 1)
      [] v = "render" -> Len(find_elements(dom, {DRI}))
      [] v = "crawl4ai" -> Len(find_elements(dom, {DRI, JFT, MYE}))
      [] v = "debug" -> max_count(dom, <<DRI, JFT, MYE, JSR, WII>>, 1)
      [] v = "simplemaps" ->
            Max(Len(find_elements(dom, {DRI, JFT, MYE})),
                Len(find_elements(dom, {JSR, ".gws-localreviews__google-review"})))
      [] v = "universal" -> max_count(dom, <<DRI, JFT, MYE, FBM, WII>>, 1)
      [] OTHER -> Len(find_elements(dom, {DRI, JFT, MYE}))

\* the break taken because the requested number of containers is rendered
target_reached(v, count, n) == count >= n

\* the breaks that do not look at max_reviews; sc is the loop variable scroll
threshold_break(v, sc, count) ==
    CASE v = "working" -> sc > 15 /\ count < 10
      [] v = "render" -> sc > 10 /\ count < 5
      [] v = "crawl4ai" -> count > 50
      [] v = "debug" -> count > 50
      [] v = "simplemaps" -> sc > 10 /\ count < 5
      [] v = "universal" -> sc > 10 /\ count < 3
      [] OTHER -> count > 50 \/ (sc > 5 /\ count < 3)

(***************************************************************************)
(* Per-class facts of scrape_reviews.                                      *)
(***************************************************************************)
Variants ==
    {"working", "render", "crawl4ai", "debug", "simplemaps", "universal", "realtime"}

\* scrape_reviews starts by emptying reviews_data, business_info, debug_messages
resets_at_start(v) == v \notin {"crawl4ai", "debug"}

\* the setup method returns None, instead of raising, when Chrome cannot start
setup_returns_none(v) == v \in {"render", "debug"}

\* the setup method runs a script in the browser it has just launched
setup_runs_script(v) == v # "debug"

\* scrape_reviews gives up when the reviews tab is not found
tab_is_required(v) == v \in {"working", "render", "realtime"}

\* the finally block swallows an exception of driver.quit()
quit_is_guarded(v) == v = "render"

\* the finally block logs after driver.quit()
logs_close(v) == v \in {"crawl4ai", "debug", "simplemaps"}

\* the messages logged before the try block
start_messages(v) ==
    IF v \in {"crawl4ai", "simplemaps"} THEN <<"start", "target">> ELSE <<"start">>

\* the message logged by the instance's constructor, if any
init_messages(v) == IF v = "debug" THEN <<"gemini">> ELSE <<>>

(***************************************************************************)
(* Inputs of a call.                                                       *)
(***************************************************************************)
\* containers a pagination round can add: none, one, or a burst
Burst == 26
\* pagination rounds, from the first, in which the browser may fail
MaxFaultRound == 1

RECURSIVE SeqsUpTo(_, _)
SeqsUpTo(S, n) ==
    IF n = 0 THEN {<<>>}
    ELSE SeqsUpTo(S, n - 1)
         \cup {Append(q, x) : q \in {r \in SeqsUpTo(S, n - 1) : Len(r) = n - 1}, x \in S}

ShortPages == SeqsUpTo(Kinds, MaxContainers)

LongPage == [i \in 1..LongLen |-> "ok"]

Pages == ShortPages \cup {LongPage}

MaxReviews == (1..MaxReq) \cup {100}

\* h1 texts: a name with surrounding blanks, an empty heading, no heading
Headings == {" Pizza Place ", "", None}

\* rendered containers up to which a round adding a single one is enumerated
Singles == 2

\* what a round can add when n containers are rendered
Growth(n) == IF n < Singles THEN {0, 1, Burst} ELSE {0, Burst}

\* what the content extraction of the crawler can hand back: nothing, or
\* reviews in the shape of its extraction schema
CrawlItem(name, rating, text) ==
    [reviewer_name |-> name, rating |-> rating, review_text |-> text,
     review_date |-> "a week ago"]

CrawlContents ==
    { <<>>,
      <<CrawlItem("Zed", 5, GoodText)>>,
      <<CrawlItem("Zed", 5, GoodText), CrawlItem("Yan", 4, "Good"),
        CrawlItem("Xia", 2, "Average pizza, could be better")>> }

\* CSVReviewAnalyzer.__init__: no data frame (df is None: the empty sequence)
CSVReviewAnalyzer == [df |-> <<>>, business_name |-> ""]

(***************************************************************************)
(* The state after construction: an instance of one of the classes, and    *)
(* the call it is about to serve.                                          *)
(***************************************************************************)
Init ==
    /\ variant \in Variants
    /\ pc = "idle"
    /\ \/ h1 = " Pizza Place " /\ page \in Pages /\ max_reviews \in MaxReviews
       \/ /\ h1 \in Headings \ {" Pizza Place "}
          /\ page \in {q \in ShortPages : Len(q) <= 1}
          /\ max_reviews \in {1, 100}
    /\ driver = None
    /\ launched = 0
    /\ quits = 0
    /\ loaded = 0
    /\ scroll = 0
    /\ grew = FALSE
    /\ stop = "none"
    /\ reviews_data = <<>>
    /\ business_info = <<>>
    /\ debug_messages = init_messages(variant)
    /\ retval = <<>>
    /\ outcome = "running"
    /\ failure = "none"
    /\ attempts = 0
    /\ calls = <<>>
    /\ sessions = <<>>
    /\ analyzer = CSVReviewAnalyzer
    /\ api_response = <<>>
    /\ csv_analyzer = CSVReviewAnalyzer
    /\ csv_message = "none"
    /\ extraction = <<>>
    /\ history = <<>>
    /\ service = <<>>

log(messages) == debug_messages \o messages

\* the except clause of scrape_reviews: log the error, return []
Except(f) ==
    /\ debug_messages' = log(<<"error">>)
    /\ retval' = <<>>
    /\ failure' = f
    /\ pc' = "finally"

\* a return statement inside the try block: the finally block runs next
Return(value, messages) ==
    /\ debug_messages' = log(messages)
    /\ retval' = value
    /\ pc' = "finally"

(***************************************************************************)
(* scrape_reviews, step by step.                                           *)
(***************************************************************************)
\* entry: the resets and the first log lines
Start ==
    /\ pc = "idle"
    /\ pc' = "setup"
    /\ IF resets_at_start(variant)
       THEN /\ reviews_data' = <<>>
            /\ business_info' = <<>>
            /\ debug_messages' = start_messages(variant)
       ELSE /\ debug_messages' = log(start_messages(variant))
            /\ UNCHANGED <<reviews_data, business_info>>
    /\ UNCHANGED <<other_vars, attempts, variant, page, h1, max_reviews, driver, launched, quits,
                   loaded, scroll, grew, stop, retval, outcome, failure>>

\* how many times the setup method can call webdriver.Chrome(...): RenderScraper
\* tries the system chromedriver and, when that raises, the webdriver-manager one
launch_attempts(v) == IF v = "render" THEN 2 ELSE 1

\* driver = self.setup_chrome_driver(): Chrome starts (at the first call of
\* webdriver.Chrome, or at the retry) and the script runs
SetupOk ==
    /\ pc = "setup"
    /\ launched' = launched + 1
    /\ driver' = "driver"
    /\ debug_messages' = log(<<"chrome_ready">>)
    /\ pc' = "nav"
    /\ \E a \in 1..launch_attempts(variant) :
          /\ a > 1 => Len(page) <= RetryPageLen
          /\ attempts' = a
    /\ UNCHANGED <<other_vars, variant, page, h1, max_reviews, quits, loaded, scroll, grew,
                   stop, reviews_data, business_info, retval, outcome, failure>>

\* webdriver.Chrome(...) raises: no browser; the setup method returns None
\* where it catches the exception, and scrape_reviews returns [] either way
SetupLaunchFails ==
    /\ pc = "setup"
    /\ IF setup_returns_none(variant)
       THEN /\ Return(<<>>, <<"chrome_setup_failed", "chrome_failed">>)
            /\ failure' = "launch"
       ELSE Except("launch")
    /\ attempts' = launch_attempts(variant)
    /\ UNCHANGED <<other_vars, variant, page, h1, max_reviews, driver, launched, quits,
                   loaded, scroll, grew, stop, reviews_data, business_info,
                   outcome>>

\* webdriver.Chrome(...) has started the browser and driver.execute_script
\* raises inside the setup method: the assignment to driver never happens
SetupScriptFails ==
    /\ pc = "setup"
    /\ setup_runs_script(variant)
    /\ launched' = launched + 1
    /\ Except("script")
    /\ \E a \in 1..launch_attempts(variant) :
          /\ a > 1 => Len(page) <= RetryPageLen
          /\ attempts' = a
    /\ UNCHANGED <<other_vars, variant, page, h1, max_reviews, driver, quits, loaded,
                   scroll, grew, stop, reviews_data, business_info, outcome>>

\* driver.get(url)
Navigate ==
    /\ pc = "nav"
    /\ \/ /\ pc' = "identity"
          /\ UNCHANGED <<debug_messages, retval, failure>>
       \/ Except("nav")
    /\ UNCHANGED <<other_vars, attempts, variant, page, h1, max_reviews, driver, launched, quits,
                   loaded, scroll, grew, stop, reviews_data, business_info,
                   outcome>>

\* the business name and self.business_info
Identity ==
    /\ pc = "identity"
    /\ business_info' = [name |-> business_name(variant, h1), url |-> Url]
    /\ debug_messages' =
          IF h1 = None /\ variant \notin {"working", "render", "universal"}
          THEN debug_messages ELSE log(<<"business">>)
    /\ pc' = "tab"
    /\ UNCHANGED <<other_vars, attempts, variant, page, h1, max_reviews, driver, launched, quits,
                   loaded, scroll, grew, stop, reviews_data, retval, outcome,
                   failure>>

\* the search for the reviews tab; the page has rendered its first containers
\* by now.  found is whether a tab was clicked.
FindReviews ==
    /\ pc = "tab"
    /\ \E found \in BOOLEAN, first \in {0, 1} :
          /\ loaded' = Min(Len(page), first)
          /\ IF ~found /\ tab_is_required(variant)
             THEN /\ Return(<<>>, <<"tab_search", "no_reviews">>)
                  /\ failure' = "no_tab"
             ELSE IF variant = "realtime" /\ Min(Len(page), first) = 0
             THEN \* "No review elements found with any selector"
                  /\ Return(<<>>, <<"tab_search", "tab_clicked", "no_elements">>)
                  /\ failure' = "no_elements"
             ELSE /\ debug_messages' =
                        log(<<"tab_search">>
                            \o (IF found THEN <<"tab_clicked">> ELSE <<"tab_not_found">>)
                            \o <<"loading">>)
                  /\ pc' = "scroll"
                  /\ UNCHANGED <<retval, failure>>
    /\ UNCHANGED <<other_vars, attempts, variant, page, h1, max_reviews, driver, launched, quits,
                   scroll, grew, stop, reviews_data, business_info, outcome>>

\* one round of the pagination loop: scroll, let the page render, count, test
ScrollRound ==
    /\ pc = "scroll"
    /\ \E inc \in Growth(loaded) :
          LET now   == Min(Len(page), loaded + inc)
              count == review_count(variant, Dom(page, now))
              why   == IF target_reached(variant, count, max_reviews) THEN "target"
                       ELSE IF threshold_break(variant, scroll, count) THEN "threshold"
                       ELSE IF scroll + 1 >= max_scrolls(variant, max_reviews) THEN "cap"
                       ELSE "none"
          IN /\ loaded' = now
             /\ grew' = (now > loaded)
             /\ stop' = why
             /\ debug_messages' =
                   log(<<"scroll">> \o (IF why = "target" THEN <<"target_reached">>
                                        ELSE <<>>))
             /\ IF why = "none"
                THEN scroll' = scroll + 1 /\ pc' = "scroll"
                ELSE scroll' = scroll /\ pc' = "extract"
    /\ UNCHANGED <<other_vars, attempts, variant, page, h1, max_reviews, driver, launched, quits,
                   reviews_data, business_info, retval, outcome, failure>>

\* the browser fails during a round (the session is lost, a script raises)
ScrollFails ==
    /\ pc = "scroll"
    /\ scroll < MaxFaultRound
    /\ Except("scroll")
    /\ UNCHANGED <<other_vars, attempts, variant, page, h1, max_reviews, driver, launched, quits,
                   loaded, scroll, grew, stop, reviews_data, business_info,
                   outcome>>

\* the records the extraction hands to scrape_reviews
extracted(v, dom, info) ==
    CASE v = "working" -> Working_extract_all_reviews(dom, info)
      [] v = "render" -> Render_extract_reviews_fast(dom, info)
      [] v = "universal" -> Universal_extract_all_reviews(dom, info)
      [] v = "realtime" -> RealTime_extract_reviews(dom, info)
      [] OTHER -> SelectSeq(SimpleMaps_extract_reviews_direct(dom, info),
                            SimpleMaps_is_real)

\* extraction and the return statements after it
Extract ==
    /\ pc = "extract"
    /\ variant # "crawl4ai"
    /\ IF variant = "debug"
       THEN /\ reviews_data' = Debug_result(Dom(page, loaded))
            /\ Return(Debug_result(Dom(page, loaded)),
                      IF Debug_result(Dom(page, loaded)) = Debug_sample_reviews
                      THEN <<"sample_data">> ELSE <<"extracting", "extracted">>)
       ELSE LET reviews == extracted(variant, Dom(page, loaded), business_info)
            IN IF reviews # <<>>
               THEN /\ reviews_data' = Take(reviews, max_reviews)
                    /\ Return(Take(reviews, max_reviews), <<"extracting", "extracted">>)
               ELSE /\ UNCHANGED reviews_data
                    /\ Return(<<>>, <<"extracting", "no_reviews">>)
    /\ UNCHANGED <<other_vars, attempts, variant, page, h1, max_reviews, driver, launched, quits,
                   loaded, scroll, grew, stop, business_info, outcome, failure>>

\* the browser fails while the containers are looked up
ExtractFails ==
    /\ pc = "extract"
    /\ variant # "crawl4ai"
    /\ Except("extract")
    /\ UNCHANGED <<other_vars, attempts, variant, page, h1, max_reviews, driver, launched, quits,
                   loaded, scroll, grew, stop, reviews_data, business_info,
                   outcome>>

\* Crawl4AIScraper: page_source, then driver.quit() and driver = None before
\* the crawler runs; a quit that raises leaves driver set
Handoff ==
    /\ pc = "extract"
    /\ variant = "crawl4ai"
    /\ quits' = quits + 1
    /\ \/ /\ driver' = None
          /\ debug_messages' = log(<<"crawl4ai">>)
          /\ pc' = "crawl"
          /\ UNCHANGED <<retval, failure>>
       \/ /\ Except("handoff_quit")
          /\ UNCHANGED driver
    /\ UNCHANGED <<other_vars, attempts, variant, page, h1, max_reviews, launched, loaded, scroll,
                   grew, stop, reviews_data, business_info, outcome>>

\* the crawler's extraction, the cleaning of its reviews, the fallback parsing
Crawl ==
    /\ pc = "crawl"
    /\ \/ /\ UNCHANGED failure
          /\ \E content \in CrawlContents :
                LET cleaned_reviews == Crawl4AI_cleaned_reviews(content, max_reviews)
                    fallback == Crawl4AI_fallback_html_parsing(Dom(page, loaded))
                IN IF cleaned_reviews # <<>>
                   THEN /\ reviews_data' = cleaned_reviews
                        /\ Return(cleaned_reviews, <<"crawl_extracted">>)
                   ELSE /\ reviews_data' = IF fallback # <<>> THEN fallback
                                           ELSE reviews_data
                        /\ Return(fallback,
                                  <<"fallback", "fallback_parsing">>
                                  \o (IF fallback # <<>> THEN <<"fallback_extracted">>
                                      ELSE <<>>))
       \/ /\ Except("crawl")
          /\ UNCHANGED reviews_data
    /\ UNCHANGED <<other_vars, attempts, variant, page, h1, max_reviews, driver, launched, quits,
                   loaded, scroll, grew, stop, business_info, outcome>>

\* the finally block: quit the browser if driver is set.  quit_raises: the
\* call to driver.quit() raises (the browser has already gone).
Finally ==
    /\ pc = "finally"
    /\ pc' = "done"
    /\ IF driver = None
       THEN /\ outcome' = "returned"
            /\ UNCHANGED <<quits, debug_messages, retval, failure>>
       ELSE /\ quits' = quits + 1
            /\ \E quit_raises \in BOOLEAN :
                  /\ failure' = IF quit_raises /\ failure = "none" THEN "quit"
                                ELSE failure
                  /\ IF quit_raises /\ ~quit_is_guarded(variant)
                     THEN /\ outcome' = "raised"
                          /\ retval' = <<>>
                          /\ UNCHANGED debug_messages
                     ELSE /\ outcome' = "returned"
                          /\ debug_messages' =
                                IF logs_close(variant) /\ ~quit_raises
                                THEN log(<<"closed">>) ELSE debug_messages
                          /\ UNCHANGED retval
    /\ UNCHANGED <<other_vars, attempts, variant, page, h1, max_reviews, driver, launched, loaded,
                   scroll, grew, stop, reviews_data, business_info>>

Next ==
    \/ Start
    \/ SetupOk
    \/ SetupLaunchFails
    \/ SetupScriptFails
    \/ Navigate
    \/ Identity
    \/ FindReviews
    \/ ScrollRound
    \/ ScrollFails
    \/ Extract
    \/ ExtractFails
    \/ Handoff
    \/ Crawl
    \/ Finally

Spec == Init /\ [][Next]_vars

(***************************************************************************)
(* Properties of a call.                                                   *)
(***************************************************************************)
Done == pc = "done"

\* the indices of a sequence
Idx(q) == 1..Len(q)

\* C1: a call that started a browser has invoked its quit exactly once by the
\* time it ends, whatever the exit path.
C1_QuitExactlyOnce == Done /\ launched > 0 => quits = 1

\* C2: every record of the returned list has a rating in 1..5, a review text
\* of at least 10 characters and a non-empty reviewer name.
C2_RecordsValid ==
    Done => \A i \in Idx(retval) :
               /\ retval[i].rating \in 1..5
               /\ Len(retval[i].review_text) >= 10
               /\ retval[i].reviewer_name # ""

\* C3: the returned list is no longer than min(max_reviews, hard cap), on
\* every return path; the hard cap is taken as the largest one the code knows.
C3_LengthBounded == Done => Len(retval) <= Min(max_reviews, WorkingHardLimit)

\* the dedupe key of a record: reviewer identity and review text
DedupeKey(r) == <<r.reviewer_name, r.review_text>>

\* C4: no two records of the returned list share a dedupe key.
C4_NoDuplicateKeys ==
    Done => \A i, j \in Idx(retval) :
               i # j => DedupeKey(retval[i]) # DedupeKey(retval[j])

\* the number the star widget of a card states, NoRating when it has none
StatedRating(k) ==
    IF STAR_IMG \in DOMAIN Children(k) THEN first_int(Children(k)[STAR_IMG].aria)
    ELSE NoRating

\* the name a card shows, "" when it shows none
ShownName(k) ==
    IF D4R \in DOMAIN Children(k) THEN strip(Children(k)[D4R].text)
    ELSE IF X43 \in DOMAIN Children(k) THEN strip(Children(k)[X43].text)
    ELSE ""

\* C5: a rendered card whose rating resolves to no integer in 1..5 has no
\* record in the returned list.
C5_NoRecordWithoutRating ==
    Done => \A i \in 1..loaded : \A j \in Idx(retval) :
               StatedRating(page[i]) \notin 1..5
                  => retval[j].reviewer_name # ShownName(page[i])

\* C6: a call whose navigation failed ends by raising to the caller, after the
\* browser has been released.
C6_NavigationFailureRaises ==
    Done /\ failure = "nav" => outcome = "raised" /\ quits = 1

\* the review text a card shows: the first text element of at least 10 characters
ShownText(k) ==
    IF WII \in DOMAIN Children(k) /\ Len(strip(Children(k)[WII].text)) >= 10
    THEN strip(Children(k)[WII].text)
    ELSE IF MYE_SPAN \in DOMAIN Children(k) THEN strip(Children(k)[MYE_SPAN].text)
    ELSE ""

\* a card that shows a name, a rating in 1..5 and a text of at least 10 characters
WellFormed(k) ==
    /\ ShownName(k) # ""
    /\ StatedRating(k) \in 1..5
    /\ Len(ShownText(k)) >= 10

\* C7: a call whose pagination ended with no well-formed card rendered returns
\* the empty list: no placeholder or sample record stands in.
C7_EmptyWhenNothingValid ==
    Done /\ stop # "none" /\ (\A i \in 1..loaded : ~WellFormed(page[i]))
       => retval = <<>>

\* the cards the container lookup of WorkingScraper and RenderScraper settles
\* on: those carrying data-review-id, or every card when none carries it
Offered(dom) ==
    IF \E i \in Idx(dom) : DRI \in Classes(dom[i])
    THEN {i \in Idx(dom) : DRI \in Classes(dom[i])}
    ELSE Idx(dom)

\* the record a well-formed card stands for is in the list as often as the
\* card is offered
EveryValidRecord(dom, out) ==
    \A k \in Kinds :
       WellFormed(k) =>
          Cardinality({i \in Offered(dom) : dom[i] = k})
             = Cardinality({j \in Idx(out) :
                               /\ out[j].reviewer_name = ShownName(k)
                               /\ out[j].rating = StatedRating(k)
                               /\ out[j].review_text = ShownText(k)})

C9_StopsOnTargetOnly ==
    variant \in {"render", "working", "realtime"}
       => /\ pc = "scroll" /\ scroll > 0
                => review_count(variant, Dom(page, loaded)) < max_reviews
          /\ stop = "threshold" => ~(grew /\ loaded < Len(page))

\* C10: once the identity is resolved from a page whose heading is missing or
\* has no text, it is 'Unknown Business', and the call goes on to the reviews.
C10_PlaceholderIdentity ==
    pc = "tab" /\ (h1 = None \/ strip(h1) = "")
       => business_info.name = "Unknown Business"

(***************************************************************************)
(* C11: when webdriver.Chrome(...) cannot start a browser, the call ends   *)
(* by raising to its caller, and the setup method has called               *)
(* webdriver.Chrome(...) once only.                                        *)
(***************************************************************************)
C11_LaunchFailureRaises ==
    Done /\ failure = "launch" => outcome = "raised" /\ attempts = 1

(***************************************************************************)
(* C12: every record of the returned list carries the five fields          *)
(* reviewer_name, rating, review_text, review_date and shop_name, each     *)
(* with a value (no missing key, no None, no empty string).                *)
(***************************************************************************)
FiveFields ==
    {"reviewer_name", "rating", "review_text", "review_date", "shop_name"}

C12_FiveFieldsPopulated ==
    Done => \A i \in Idx(retval) :
               /\ FiveFields \subseteq DOMAIN retval[i]
               /\ \A f \in (FiveFields \cap DOMAIN retval[i]) \ {"rating"} :
                     retval[i][f] \notin {"", None}
               /\ "rating" \in DOMAIN retval[i] => retval[i].rating # NoRating

(***************************************************************************)
(* C13: the returned list of WorkingScraper and SimpleMapscraper is a      *)
(* prefix of the accepted records taken in the order in which their        *)
(* containers are processed: nothing is reordered, and no accepted record  *)
(* is left out while a later one is kept.                                  *)
(***************************************************************************)
\* the containers in processing order
Processed(v, dom) ==
    IF v = "working" THEN Working_containers(dom) ELSE SimpleMaps_containers(dom)

\* the record accepted from one container, if any
AcceptedOf(v, c, info) ==
    IF v = "working" THEN Working_extract_single_review(c, info)
    ELSE SelectSeq(SimpleMaps_extract_one(c, info), SimpleMaps_is_real)

RECURSIVE AcceptedFrom(_, _, _, _, _)
AcceptedFrom(v, dom, order, info, i) ==
    IF i > Len(order) THEN <<>>
    ELSE AcceptedOf(v, Container(dom[order[i]]), info)
            \o AcceptedFrom(v, dom, order, info, i + 1)

Accepted ==
    LET dom == Dom(page, loaded)
    IN AcceptedFrom(variant, dom, Processed(variant, dom), business_info, 1)

C13_DiscoveryOrderPrefix ==
    Done /\ variant \in {"working", "simplemaps"}
       => LET acc == Accepted
          IN /\ Len(retval) <= Len(acc)
             /\ retval = SubSeq(acc, 1, Len(retval))
             /\ failure = "none" /\ outcome = "returned"
                   => Len(retval) = Min(max_reviews, Len(acc))

\* a call that returned fewer records than were accepted, the records differing
C13_Witness ==
    /\ Done /\ variant \in {"working", "simplemaps"}
    /\ Len(retval) >= 1 /\ Len(retval) < Len(Accepted)
    /\ retval[1] # Accepted[Len(Accepted)]

(***************************************************************************)
(* Two threads inside working_scraper.scrape_reviews.  The Streamlit app   *)
(* serves each browser tab in its own thread, and every thread calls the   *)
(* one module-level instance: self.reviews_data, self.business_info and    *)
(* self.debug_messages are shared, driver is a local variable of each      *)
(* call.  The pagination rounds, detailed in ScrollRound, are one step.    *)
(***************************************************************************)
Threads == {1, 2}

\* the pages the two calls are sent to
ThreadPages == {<<>>, <<"ok">>, <<"ok", "alt">>}

\* max_reviews of both calls
ThreadMax == 1

\* a session: the thread that started it, the threads that have navigated,
\* read or quit it, and whether it has been quit
Session(t) == [by |-> t, users |-> {}, quit |-> FALSE]

\* the single call of Spec is not running
IdleScraper ==
    /\ variant = "working"
    /\ pc = "idle"
    /\ page = <<>>
    /\ h1 = " Pizza Place "
    /\ max_reviews = ThreadMax
    /\ driver = None
    /\ launched = 0
    /\ quits = 0
    /\ loaded = 0
    /\ scroll = 0
    /\ grew = FALSE
    /\ stop = "none"
    /\ reviews_data = <<>>
    /\ business_info = <<>>
    /\ debug_messages = <<>>
    /\ retval = <<>>
    /\ outcome = "running"
    /\ failure = "none"
    /\ attempts = 0

\* no request has reached the backend and no file the CSV tab
NoUploads ==
    /\ analyzer = CSVReviewAnalyzer
    /\ api_response = <<>>
    /\ csv_analyzer = CSVReviewAnalyzer
    /\ csv_message = "none"

\* no container has been handed to an extraction, no call has returned
NoExtraction ==
    /\ extraction = <<>>
    /\ history = <<>>

TwoCallsInit ==
    /\ IdleScraper
    /\ NoUploads
    /\ NoExtraction
    /\ service = <<>>
    /\ calls \in [Threads -> {[pc |-> "idle", driver |-> 0, page |-> q,
                               retval |-> <<>>] : q \in ThreadPages}]
    /\ sessions = <<>>

\* what the steps of the two threads leave alone
single_call_vars ==
    <<variant, pc, page, h1, max_reviews, driver, launched, quits, loaded, scroll,
      grew, stop, retval, outcome, failure, attempts, analyzer, api_response,
      csv_analyzer, csv_message, service, extraction, history>>

\* the session a thread's driver would stand for, were it kept on the
\* instance: the one started last (0 is None)
instance_driver(t) == Len(sessions)

\* the local variable driver of the call running in thread t (0 is None)
local_driver(t) == calls[t].driver

\* a WebDriver method called on the thread's driver
used(t, ss) == [ss EXCEPT ![local_driver(t)].users = @ \cup {t}]

at(t, where) == calls' = [calls EXCEPT ![t].pc = where]

\* the except clause followed by the finally block
T_Except(t) ==
    /\ debug_messages' = log(<<"error">>)
    /\ calls' = [calls EXCEPT ![t].pc = "finally", ![t].retval = <<>>]

\* lines 44-50: the resets of the shared fields
T_Start(t) ==
    /\ calls[t].pc = "idle"
    /\ reviews_data' = <<>>
    /\ business_info' = <<>>
    /\ debug_messages' = <<"start">>
    /\ at(t, "setup")
    /\ UNCHANGED sessions
    /\ UNCHANGED single_call_vars

\* line 52: driver = self.setup_chrome_driver()
T_Setup(t) ==
    /\ calls[t].pc = "setup"
    /\ \/ /\ sessions' = Append(sessions, Session(t))
          /\ calls' = [calls EXCEPT ![t].pc = "nav",
                                    ![t].driver = Len(sessions) + 1]
          /\ debug_messages' = log(<<"chrome_ready">>)
       \/ \* webdriver.Chrome(...) raises
          /\ T_Except(t)
          /\ UNCHANGED sessions
       \/ \* execute_script raises after the browser has started
          /\ sessions' = Append(sessions, Session(t))
          /\ T_Except(t)
    /\ UNCHANGED <<reviews_data, business_info>>
    /\ UNCHANGED single_call_vars

\* line 56: driver.get(url)
T_Navigate(t) ==
    /\ calls[t].pc = "nav"
    /\ sessions' = used(t, sessions)
    /\ \/ at(t, "identity") /\ UNCHANGED debug_messages
       \/ T_Except(t)
    /\ UNCHANGED <<reviews_data, business_info>>
    /\ UNCHANGED single_call_vars

\* the heading of the page thread t is sent to: the two calls are for
\* different businesses
ThreadHeading(t) == IF t = 1 THEN " Pizza Place " ELSE "Burger Barn"

\* lines 60-66: the business name, read from the thread's page
T_Identity(t) ==
    /\ calls[t].pc = "identity"
    /\ sessions' = used(t, sessions)
    /\ business_info' = [name |-> business_name("working", ThreadHeading(t)),
                         url |-> Url]
    /\ debug_messages' = log(<<"business">>)
    /\ at(t, "tab")
    /\ UNCHANGED reviews_data
    /\ UNCHANGED single_call_vars

\* line 69: find_and_click_reviews_tab(driver)
T_FindReviews(t) ==
    /\ calls[t].pc = "tab"
    /\ sessions' = used(t, sessions)
    /\ \E found \in BOOLEAN :
          IF found
          THEN /\ debug_messages' = log(<<"tab_search", "tab_clicked", "loading">>)
               /\ at(t, "scroll")
          ELSE /\ debug_messages' = log(<<"tab_search", "no_reviews">>)
               /\ calls' = [calls EXCEPT ![t].pc = "finally", ![t].retval = <<>>]
    /\ UNCHANGED <<reviews_data, business_info>>
    /\ UNCHANGED single_call_vars

\* line 73: scroll_to_load_reviews(driver, max_reviews)
T_Scroll(t) ==
    /\ calls[t].pc = "scroll"
    /\ sessions' = used(t, sessions)
    /\ \/ at(t, "extract") /\ debug_messages' = log(<<"scroll">>)
       \/ T_Except(t)
    /\ UNCHANGED <<reviews_data, business_info>>
    /\ UNCHANGED single_call_vars

\* lines 76-84: extract_all_reviews(driver) and the return statements
T_Extract(t) ==
    /\ calls[t].pc = "extract"
    /\ sessions' = used(t, sessions)
    /\ LET dom     == Dom(calls[t].page, Len(calls[t].page))
           reviews == Working_extract_all_reviews(dom, business_info)
       IN IF reviews # <<>>
          THEN /\ reviews_data' = Take(reviews, max_reviews)
               /\ debug_messages' = log(<<"extracting", "extracted">>)
               /\ calls' = [calls EXCEPT ![t].pc = "finally",
                                         ![t].retval = Take(reviews, max_reviews)]
          ELSE /\ UNCHANGED reviews_data
               /\ debug_messages' = log(<<"extracting", "no_reviews">>)
               /\ calls' = [calls EXCEPT ![t].pc = "finally", ![t].retval = <<>>]
    /\ UNCHANGED business_info
    /\ UNCHANGED single_call_vars

\* lines 89-91: if driver: driver.quit()
T_Finally(t) ==
    /\ calls[t].pc = "finally"
    /\ at(t, "done")
    /\ sessions' = IF local_driver(t) = 0 THEN sessions
                   ELSE [used(t, sessions) EXCEPT ![local_driver(t)].quit = TRUE]
    /\ UNCHANGED <<reviews_data, business_info, debug_messages>>
    /\ UNCHANGED single_call_vars

TwoCallsNext ==
    \/ \E t \in Threads : T_Start(t)
    \/ \E t \in Threads : T_Setup(t)
    \/ \E t \in Threads : T_Navigate(t)
    \/ \E t \in Threads : T_Identity(t)
    \/ \E t \in Threads : T_FindReviews(t)
    \/ \E t \in Threads : T_Scroll(t)
    \/ \E t \in Threads : T_Extract(t)
    \/ \E t \in Threads : T_Finally(t)

TwoCallsSpec == TwoCallsInit /\ [][TwoCallsNext]_vars

(***************************************************************************)
(* C14: every browser session is navigated, read and quit by the call that *)
(* started it only, also while two calls run on the same instance.         *)
(***************************************************************************)
C14_SessionOwnedByOneCall ==
    \A i \in Idx(sessions) : sessions[i].users \subseteq {sessions[i].by}

\* both threads have a session of their own in use at the same time
C14_Witness ==
    /\ Len(sessions) = 2
    /\ calls[1].pc = "extract" /\ calls[2].pc = "extract"
    /\ \A i \in Idx(sessions) : sessions[i].users = {sessions[i].by}
    /\ sessions[1].by # sessions[2].by

(***************************************************************************)
(* The backend API (backend/main.py) and the CSV tab of the Streamlit app  *)
(* (app.py, csv_upload_tab).  A data frame is its set of columns and its   *)
(* rows; of a row the model keeps the stars and the text.  analyzer.df is  *)
(* a sequence: empty for None, else the one data frame.                    *)
(***************************************************************************)
\* most rows of an uploaded file
MaxRows == 1

AllColumns == {"title", "url", "stars", "name", "text"}

ColumnSets == {AllColumns, AllColumns \ {"url"}, AllColumns \ {"stars"}}

CsvRows == [stars : {3, 6}, text : {"", "Good pizza"}]

\* the uploaded files: readable ones, and one that pandas cannot parse
CsvFiles ==
    {[readable |-> TRUE, columns |-> cs, rows |-> rs] :
        cs \in ColumnSets, rs \in SeqsUpTo(CsvRows, MaxRows)}
    \cup {[readable |-> FALSE, columns |-> {}, rows |-> <<>>]}

DataFrame(file) == [columns |-> file.columns, rows |-> file.rows]

HTTPException(status_code, detail) ==
    [status |-> status_code, detail |-> detail]

Success == [status |-> 200, detail |-> "success"]

\* str(e) of a raised HTTPException: "<status>: <detail>" under a Starlette
\* that defines __str__, the empty string under one that does not
str_of(e) == {ToString(e.status) \o ": " \o e.detail, ""}

\* raise HTTPException(...) inside the try block of an endpoint: the
\* `except Exception` clause catches it and raises status 500 in its place
raised_in_try(e) == {HTTPException(500, d) : d \in str_of(e)}

\* df['<column>']: a missing column is a KeyError, caught by the same clause
KeyError(column) == HTTPException(500, "'" \o column \o "'")

\* the first of the columns, in the order the code reads them, that is missing
first_missing(df, columns) ==
    SelectSeq(columns, LAMBDA c : c \notin df.columns)

answer(request, r) ==
    api_response' = [request |-> request, status |-> r.status, detail |-> r.detail]

\* what the requests leave alone
scraper_vars == <<call_vars, calls, sessions, service, extraction, history>>

\* POST /upload-csv
upload_csv ==
    /\ UNCHANGED <<scraper_vars, csv_analyzer, csv_message>>
    /\ \E file \in CsvFiles :
          IF ~file.readable
          THEN /\ answer("upload-csv", HTTPException(500, "parse error"))
               /\ UNCHANGED analyzer
          ELSE LET df      == DataFrame(file)
                   missing == first_missing(df, <<"title", "stars", "url">>)
               IN IF df.rows # <<>> /\ "title" \notin df.columns
                  THEN /\ analyzer' = [analyzer EXCEPT !.df = <<df>>]
                       /\ answer("upload-csv", KeyError("title"))
                  ELSE /\ analyzer' =
                             [df |-> <<df>>,
                              business_name |-> IF df.rows # <<>> THEN "Pizza Place"
                                                ELSE "Unknown Business"]
                       /\ answer("upload-csv",
                                 IF SelectSeq(missing, LAMBDA c : c # "title") # <<>>
                                 THEN KeyError(Head(SelectSeq(missing,
                                                              LAMBDA c : c # "title")))
                                 ELSE Success)

\* the shape of the five query endpoints: the None test, then columns reads
query(request, columns) ==
    /\ IF analyzer.df = <<>>
       THEN \E r \in raised_in_try(HTTPException(400, "No CSV data loaded")) :
               answer(request, r)
       ELSE LET missing == first_missing(analyzer.df[1], columns)
            IN answer(request, IF missing # <<>> THEN KeyError(Head(missing))
                               ELSE Success)
    /\ UNCHANGED <<analyzer, scraper_vars, csv_analyzer, csv_message>>

\* POST /ask-question: CSVReviewAnalyzer.ask_question catches its own errors
ask_question == query("ask-question", <<>>)

\* GET /insights: _prepare_data_context reads text and stars
get_insights == query("insights", <<"text", "stars">>)

\* GET /predictions: _prepare_predictive_context reads text and stars
get_predictions == query("predictions", <<"text", "stars">>)

\* GET /charts/rating-distribution
get_rating_distribution == query("rating-distribution", <<"stars">>)

\* GET /charts/sentiment-pie
get_sentiment_pie == query("sentiment-pie", <<"stars">>)

\* POST /clear-data
clear_data ==
    /\ analyzer' = [df |-> <<>>, business_name |-> ""]
    /\ answer("clear-data", Success)
    /\ UNCHANGED <<scraper_vars, csv_analyzer, csv_message>>

\* app.py, csv_upload_tab: the file chosen in the CSV tab
csv_upload_tab ==
    /\ \E file \in CsvFiles :
          IF ~file.readable
          THEN csv_message' = "error_reading" /\ UNCHANGED csv_analyzer
          ELSE LET df == DataFrame(file)
               IN IF first_missing(df, <<"title", "stars", "name", "text">>) # <<>>
                  THEN csv_message' = "missing_columns" /\ UNCHANGED csv_analyzer
                  ELSE /\ csv_analyzer' =
                             [df |-> <<[df EXCEPT !.columns =
                                           @ \cup {"reviewer_name", "shop_name",
                                                   "rating", "review_text",
                                                   "review_date"}]>>,
                              business_name |-> IF df.rows # <<>> THEN "Pizza Place"
                                                ELSE "CSV Upload"]
                       /\ csv_message' = "loaded"
    /\ UNCHANGED <<analyzer, api_response, scraper_vars>>

ApiInit ==
    /\ IdleScraper
    /\ NoUploads
    /\ NoExtraction
    /\ service = <<>>
    /\ calls = <<>>
    /\ sessions = <<>>

ApiNext ==
    \/ upload_csv
    \/ ask_question
    \/ get_insights
    \/ get_predictions
    \/ get_rating_distribution
    \/ get_sentiment_pie
    \/ clear_data
    \/ csv_upload_tab

ApiSpec == ApiInit /\ [][ApiNext]_vars

(***************************************************************************)
(* C15: no row with stars outside 1..5 or with an empty text is in the     *)
(* data set of an analyzer that was loaded through a CSV import (the       *)
(* backend's upload-csv or the CSV tab).                                   *)
(***************************************************************************)
RowsHeld(a) ==
    \A i \in Idx(a.df) : \A j \in Idx(a.df[i].rows) :
       a.df[i].rows[j].stars \in 1..5 /\ a.df[i].rows[j].text # ""

C15_ImportedRowsValid == RowsHeld(analyzer) /\ RowsHeld(csv_analyzer)

(***************************************************************************)
(* C16: a query request (ask-question, insights, predictions,              *)
(* charts/rating-distribution, charts/sentiment-pie) that meets no loaded  *)
(* data is answered with status 400 and detail 'No CSV data loaded'.       *)
(***************************************************************************)
Queries ==
    {"ask-question", "insights", "predictions", "rating-distribution",
     "sentiment-pie"}

C16_NoDataIs400 ==
    /\ api_response # <<>>
    /\ api_response.request \in Queries
    /\ analyzer.df = <<>>
    => api_response.status = 400 /\ api_response.detail = "No CSV data loaded"

(***************************************************************************)
(* ReviewScraperService (src/scraper_service.py): one scrape_reviews call  *)
(* of a fresh instance, as test_scraper.py makes it.  The results of       *)
(* Crawl4AI and of Gemini, and what Selenium meets, are the environment's. *)
(***************************************************************************)
\* the URLs given to the call: a full place URL and a short link
GivenUrls == {Url, "https://maps.app.goo.gl/pizza"}

\* what scrape_with_crawl4ai and parse_html_with_gemini can return
ServiceResults == CrawlContents

\* ReviewScraperService.__init__, and the locals of scrape_reviews and
\* get_page_with_selenium
ReviewScraperService(url, n) ==
    [pc |-> "method1", url |-> url, max_reviews |-> n, reviews_data |-> <<>>,
     business_info |-> <<>>,
     driver |-> FALSE, browsers |-> 0, final_url |-> None, html_content |-> None,
     tried |-> <<>>, retval |-> <<>>, outcome |-> "running"]

ServiceInit ==
    /\ IdleScraper
    /\ NoUploads
    /\ NoExtraction
    /\ calls = <<>>
    /\ sessions = <<>>
    /\ service \in {ReviewScraperService(u, n) : u \in GivenUrls, n \in {20, 100}}

\* what the steps of the service leave alone
not_service_vars ==
    <<call_vars, calls, sessions, analyzer, api_response, csv_analyzer, csv_message,
      extraction, history>>

\* `if reviews: self.reviews_data = reviews; return reviews`, else go on
yielded(method, reviews, next) ==
    IF reviews # <<>>
    THEN service' = [service EXCEPT
                        !.tried = Append(@, [method |-> method, reviews |-> reviews]),
                        !.reviews_data = reviews, !.retval = reviews,
                        !.pc = "done", !.outcome = "returned"]
    ELSE service' = [service EXCEPT
                        !.tried = Append(@, [method |-> method, reviews |-> reviews]),
                        !.pc = next]

\* `return []` of scrape_reviews
returns_empty ==
    service' = [service EXCEPT !.retval = <<>>, !.pc = "done",
                               !.outcome = "returned"]

\* Method 1: scrape_with_crawl4ai(google_maps_url)
Service_crawl4ai_direct ==
    /\ service.pc = "method1"
    /\ \E reviews \in ServiceResults : yielded("crawl4ai_given", reviews, "setup")
    /\ UNCHANGED not_service_vars

\* get_page_with_selenium: driver = self.setup_selenium_driver()
Service_setup_selenium_driver ==
    /\ service.pc = "setup"
    /\ \/ service' = [service EXCEPT !.driver = TRUE, !.browsers = @ + 1,
                                    !.pc = "get"]
       \/ \* webdriver.Chrome raises: None, and `return None, None`
          service' = [service EXCEPT !.pc = "method2"]
       \/ \* execute_script raises after the browser has started: the same
          service' = [service EXCEPT !.browsers = @ + 1, !.pc = "method2"]
    /\ UNCHANGED not_service_vars

\* get_page_with_selenium: driver.get(url)
Service_driver_get ==
    /\ service.pc = "get"
    /\ \/ service' = [service EXCEPT !.pc = "name"]
       \/ \* "Selenium error": return None, None through the finally block
          service' = [service EXCEPT !.pc = "quit"]
    /\ UNCHANGED not_service_vars

\* get_page_with_selenium: the h1 lookup and self.business_info
Service_business_name ==
    /\ service.pc = "name"
    /\ \E found \in BOOLEAN :
          service' = [service EXCEPT
                         !.business_info =
                            [name |-> IF found THEN "Pizza Place"
                                      ELSE "Unknown Business",
                             url |-> service.url],
                         !.pc = "scroll"]
    /\ UNCHANGED not_service_vars

\* get_page_with_selenium: the five scrolls, current_url and page_source
Service_scroll ==
    /\ service.pc = "scroll"
    /\ \/ \E final \in GivenUrls :
             service' = [service EXCEPT !.final_url = final,
                                        !.html_content = "<html>", !.pc = "quit"]
       \/ service' = [service EXCEPT !.pc = "quit"]
    /\ UNCHANGED not_service_vars

\* get_page_with_selenium: finally, driver.quit()
Service_quit ==
    /\ service.pc = "quit"
    /\ \/ service' = [service EXCEPT !.driver = FALSE, !.pc = "method2"]
       \/ \* quit raises: the except clause of scrape_reviews returns []
          service' = [service EXCEPT !.driver = FALSE, !.retval = <<>>,
                                     !.pc = "done", !.outcome = "returned"]
    /\ UNCHANGED not_service_vars

\* Method 2: scrape_with_crawl4ai(final_url), when it differs from the given
Service_crawl4ai_final ==
    /\ service.pc = "method2"
    /\ IF service.final_url # None /\ service.final_url # service.url
       THEN \E reviews \in ServiceResults :
               yielded("crawl4ai_final", reviews, "method3")
       ELSE service' = [service EXCEPT !.pc = "method3"]
    /\ UNCHANGED not_service_vars

\* Method 3: parse_html_with_gemini(html_content), then "All methods failed"
Service_parse_html_with_gemini ==
    /\ service.pc = "method3"
    /\ IF service.html_content # None
       THEN \E reviews \in ServiceResults :
               IF reviews # <<>> THEN yielded("gemini", reviews, "done")
               ELSE service' = [service EXCEPT
                                   !.tried = Append(@, [method |-> "gemini",
                                                        reviews |-> reviews]),
                                   !.retval = <<>>, !.pc = "done",
                                   !.outcome = "returned"]
       ELSE returns_empty
    /\ UNCHANGED not_service_vars

ServiceNext ==
    \/ Service_crawl4ai_direct
    \/ Service_setup_selenium_driver
    \/ Service_driver_get
    \/ Service_business_name
    \/ Service_scroll
    \/ Service_quit
    \/ Service_crawl4ai_final
    \/ Service_parse_html_with_gemini

ServiceSpec == ServiceInit /\ [][ServiceNext]_vars

(***************************************************************************)
(* C17: ReviewScraperService.scrape_reviews ends by returning, never by    *)
(* raising; the list it returns is the result of the first method that     *)
(* yielded a non-empty list, the methods being tried in the order Crawl4AI *)
(* on the given URL, Crawl4AI on Selenium's final URL (only when it        *)
(* differs), Gemini on the Selenium HTML, and [] when none yielded; and    *)
(* when the list is non-empty business_info holds the business's name.     *)
(***************************************************************************)
MethodOrder == <<"crawl4ai_given", "crawl4ai_final", "gemini">>

\* the position of a method in the order
Rank(m) == CHOOSE i \in Idx(MethodOrder) : MethodOrder[i] = m

C17_FirstYieldingMethod ==
    service # <<>> /\ service.pc = "done"
       => LET tried == service.tried
              yield == {i \in Idx(tried) : tried[i].reviews # <<>>}
          IN /\ service.outcome = "returned"
             /\ \A i, j \in Idx(tried) :
                   i < j => Rank(tried[i].method) < Rank(tried[j].method)
             /\ \A i \in Idx(tried) :
                   tried[i].method = "crawl4ai_final"
                      => service.final_url \notin {None, service.url}
             /\ yield = {} => service.retval = <<>>
             /\ yield # {} => /\ yield = {Len(tried)}
                              /\ service.retval = tried[Len(tried)].reviews
             /\ service.retval # <<>>
                   => /\ "name" \in DOMAIN service.business_info
                      /\ service.business_info.name = "Pizza Place"

(***************************************************************************)
(* C18: the pagination loop of WorkingScraper and UniversalScraper stops   *)
(* once the count has not increased for two consecutive rounds.  Checked   *)
(* on the rounds of a page that never shows a container: the count is 0    *)
(* from the first round on, so no round increases it, and the loop is not  *)
(* running any more once two rounds have finished.                         *)
(***************************************************************************)
C18_StopsAfterTwoStalledRounds ==
    variant \in {"working", "universal"} /\ pc = "scroll" /\ scroll >= 2
       => review_count(variant, Dom(page, loaded)) > 0

(***************************************************************************)
(* C19: the pagination loop of WorkingScraper runs at most                 *)
(* min(60, max(25, max_reviews // 8)) rounds and that of RenderScraper at  *)
(* most min(40, max(15, max_reviews // 10)), whatever the page does: a     *)
(* loop still running has finished fewer rounds than the cap, and a loop   *)
(* that has ended has run no more rounds than the cap.                     *)
(***************************************************************************)
IterationCap ==
    IF variant = "working"
    THEN (IF 60 < (IF 25 > max_reviews \div 8 THEN 25 ELSE max_reviews \div 8)
          THEN 60 ELSE (IF 25 > max_reviews \div 8 THEN 25 ELSE max_reviews \div 8))
    ELSE (IF 40 < (IF 15 > max_reviews \div 10 THEN 15 ELSE max_reviews \div 10)
          THEN 40 ELSE (IF 15 > max_reviews \div 10 THEN 15 ELSE max_reviews \div 10))

C19_RoundsWithinCap ==
    variant \in {"working", "render"}
       => /\ pc = "scroll" => scroll < IterationCap
          /\ stop # "none" => scroll + 1 <= IterationCap

\* a page that kept growing without reaching the target: the loop ran to its cap
C19_Witness ==
    /\ variant \in {"working", "render"}
    /\ stop = "cap" /\ scroll + 1 = IterationCap
    /\ grew /\ loaded < max_reviews

(***************************************************************************)
(* C20: a field of a returned record is the value of the first strategy,   *)
(* in list order, whose value satisfies the field's predicate; a value     *)
(* that failed the predicate is never used.  Stated for the review text of *)
(* WorkingScraper (more than 10 characters) and the rating of              *)
(* SimpleMapscraper (a number in 1..5): every returned record is the       *)
(* record of a processed container and carries that container's            *)
(* first satisfying value.                                                 *)
(***************************************************************************)
RECURSIVE FirstGoodText(_, _)
FirstGoodText(c, i) ==
    IF i > Len(Working_text_selectors) THEN None
    ELSE LET s == Working_text_selectors[i] IN
         IF s \in DOMAIN c.el /\ Len(strip(c.el[s].text)) > 10
         THEN strip(c.el[s].text)
         ELSE FirstGoodText(c, i + 1)

RECURSIVE FirstGoodRating(_, _)
FirstGoodRating(c, i) ==
    IF i > Len(SimpleMaps_rating_selectors) THEN NoRating
    ELSE LET s == SimpleMaps_rating_selectors[i] IN
         IF s \in DOMAIN c.el /\ aria_or_text(c.el[s]) # ""
                /\ first_int(aria_or_text(c.el[s])) \in 1..5
         THEN first_int(aria_or_text(c.el[s]))
         ELSE FirstGoodRating(c, i + 1)

C20_FirstSatisfyingStrategy ==
    Done /\ variant \in {"working", "simplemaps"}
       => LET dom   == Dom(page, loaded)
              order == Processed(variant, dom)
              kinds == {dom[order[i]] : i \in Idx(order)}
          IN \A j \in Idx(retval) :
                \E k \in kinds :
                   /\ AcceptedOf(variant, Container(k), business_info) = <<retval[j]>>
                   /\ IF variant = "working"
                      THEN retval[j].review_text = FirstGoodText(Container(k), 1)
                      ELSE retval[j].rating = FirstGoodRating(Container(k), 1)


(***************************************************************************)
(* One container handed to a scraper's per-container extraction.  The      *)
(* container is drawn from the cards a results page can show: each child   *)
(* element is present with one of a few texts, or absent, in which case    *)
(* find_element raises NoSuchElementException inside the strategy's try.   *)
(***************************************************************************)
Child(s, t) == IF t = None THEN <<>> ELSE (s :> Text(t))
Star(a) == IF a = None THEN <<>> ELSE Rated(a)

Cards ==
    {[sel |-> {DRI, JFT},
      el  |-> Child(D4R, n1) @@ Child(X43, n2) @@ Star(a) @@ Child(WII, t)
              @@ Child(RSQ, d)] :
        n1 \in {None, "Alice", "User", "G"},
        n2 \in {None, " Bob ", "Google User"},
        a  \in {None, "5 stars"},
        t  \in {None, GoodText, "Nice"},
        d  \in {None, "2 weeks ago", "  "}}

\* the business_info of the scraper while it extracts
CardInfo == [name |-> "Pizza Place"]

ExtractInit ==
    /\ IdleScraper
    /\ NoUploads
    /\ calls = <<>>
    /\ sessions = <<>>
    /\ service = <<>>
    /\ history = <<>>
    /\ extraction \in {[container |-> c, by |-> "none", result |-> <<>>] : c \in Cards}

\* what an extraction leaves alone
not_extraction_vars ==
    <<call_vars, calls, sessions, analyzer, api_response, csv_analyzer, csv_message,
      service, history>>

\* the extraction once the scraper `by` has returned `result` for the container
returned(by, result) == [extraction EXCEPT !.by = by, !.result = result]

Extract_working ==
    /\ extraction.by = "none"
    /\ extraction' = returned("working",
                        Working_extract_single_review(extraction.container, CardInfo))
    /\ UNCHANGED not_extraction_vars

Extract_render ==
    /\ extraction.by = "none"
    /\ extraction' = returned("render",
                        Render_extract_single_review_fast(extraction.container, CardInfo))
    /\ UNCHANGED not_extraction_vars

Extract_real_time ==
    /\ extraction.by = "none"
    /\ extraction' = returned("real_time",
                        RealTime_extract_one(extraction.container, CardInfo))
    /\ UNCHANGED not_extraction_vars

Extract_universal ==
    /\ extraction.by = "none"
    /\ extraction' = returned("universal",
                        Universal_extract_single_review(extraction.container, CardInfo))
    /\ UNCHANGED not_extraction_vars

Extract_simple_maps ==
    /\ extraction.by = "none"
    /\ extraction' = returned("simple_maps",
                        SimpleMaps_extract_one(extraction.container, CardInfo))
    /\ UNCHANGED not_extraction_vars

\* one pass of the container loop of DebugScraper.extract_review_content
Extract_debug ==
    /\ extraction.by = "none"
    /\ LET c    == extraction.container
           name == Debug_name(c, 1, "Reviewer_1")
       IN extraction' = returned("debug",
                           <<DebugReview(name, Debug_rating(c, 1),
                                         Debug_text(c, 1, "Review from " \o name),
                                         Debug_date(c, 1))>>)
    /\ UNCHANGED not_extraction_vars

ExtractNext ==
    \/ Extract_working
    \/ Extract_render
    \/ Extract_real_time
    \/ Extract_universal
    \/ Extract_simple_maps
    \/ Extract_debug

ExtractSpec == ExtractInit /\ [][ExtractNext]_vars

\* C21: every record returned by the working, render and real-time scrapers
\* has a reviewer_name longer than one character that is not one of the
\* generic labels 'Google user' and 'User', compared case-insensitively
C21_NamesValidated ==
    extraction # <<>> /\ extraction.by \in {"working", "render", "real_time"}
    /\ extraction.result # <<>>
    => LET name == extraction.result[1].reviewer_name
       IN Len(name) > 1 /\ lower(name) \notin {"google user", "user"}


\* the date strategies of the container yield no non-empty value
NoDateFound(c) ==
    \A s \in {RSQ, P34} : s \in DOMAIN c.el => strip(c.el[s].text) = ""

\* C22: a record returned by the working or the real-time scraper never has
\* an empty review_date, and when no date strategy yields a non-empty value
\* its review_date is the placeholder 'Recent'
C22_DateNeverEmpty ==
    extraction # <<>> /\ extraction.by \in {"working", "real_time"}
    /\ extraction.result # <<>>
    => /\ extraction.result[1].review_date # ""
       /\ NoDateFound(extraction.container)
          => extraction.result[1].review_date = "Recent"


(***************************************************************************)
(* The container loop of one extraction round.                             *)
(***************************************************************************)
\* the containers the round of scraper v goes over
RoundContainers(v, dom) ==
    CASE v = "working" -> Working_containers(dom)
      [] v = "render" -> Render_containers(dom)
      [] OTHER -> RealTime_containers(dom)

\* what the body of the loop makes of one container: <<>> when it rejects it
RoundRecord(v, c, info) ==
    CASE v = "working" -> Working_extract_single_review(c, info)
      [] v = "render" -> Render_extract_single_review_fast(c, info)
      [] OTHER -> RealTime_extract_one(c, info)

\* the round's verdicts on the containers, in the order it meets them
Verdicts ==
    LET dom == Dom(page, loaded)
        order == RoundContainers(variant, dom)
    IN [i \in Idx(order) |-> RoundRecord(variant, Container(dom[order[i]]), business_info)]

\* the containers up to the i-th that yield a record
YieldingUpTo(verdicts, i) == {j \in 1..i : verdicts[j] # <<>>}

\* C23: in a round of the working, render or real-time scraper a rejected
\* container does not end the round: every container that yields a record is
\* in the returned list, however many rejected containers precede it, as long
\* as the requested count is not reached before it
C23_RejectionDoesNotStopRound ==
    Done /\ variant \in {"working", "render", "realtime"}
    /\ outcome = "returned" /\ failure = "none"
    => LET verdicts == Verdicts
       IN \A i \in DOMAIN verdicts :
             /\ verdicts[i] # <<>>
             /\ Cardinality(YieldingUpTo(verdicts, i)) <= max_reviews
             => \E k \in Idx(retval) : retval[k] = verdicts[i][1]

\* a call returned the record of a container that came after a rejected one
C23_Witness ==
    /\ Done /\ variant \in {"working", "render", "realtime"}
    /\ outcome = "returned" /\ failure = "none"
    /\ LET verdicts == Verdicts
       IN \E i, j \in DOMAIN verdicts :
             /\ i < j /\ verdicts[i] = <<>> /\ verdicts[j] # <<>>
             /\ \E k \in Idx(retval) : retval[k] = verdicts[j][1]


\* the strategy for selector s raises on the container
Raises(c, s) == s \notin DOMAIN c.el

\* C24: in the working, universal and debug scrapers a strategy that raises
\* counts as that strategy failing: when the first name strategy raises and
\* the second finds 'Bob', the container is not rejected for it and the record
\* carries the name 'Bob'
C24_RaisingStrategyTriesNext ==
    extraction # <<>> /\ extraction.by \in {"working", "universal", "debug"}
    => LET c == extraction.container
           r == extraction.result
       IN Raises(c, D4R) /\ ~Raises(c, X43) /\ c.el[X43].text = " Bob "
          => /\ r # <<>> => r[1].reviewer_name = "Bob"
             /\ ~Raises(c, STAR_IMG) /\ ~Raises(c, WII) /\ c.el[WII].text = GoodText
                => r # <<>> /\ r[1].review_text = GoodText

\* the working scraper took the name of the second strategy after the first raised
C24_Witness ==
    /\ extraction # <<>> /\ extraction.by = "working"
    /\ Raises(extraction.container, D4R)
    /\ extraction.result # <<>>
    /\ extraction.result[1].reviewer_name = "Bob"


\* C25: when a call of the working scraper has returned, the log holds the
\* entries of that call: it starts with the call's start message and, when a
\* browser session was acquired, holds a session-released entry
C25_LogHoldsTheCall ==
    Done /\ variant = "working" /\ outcome = "returned"
    => /\ debug_messages # <<>>
       /\ debug_messages[1] = start_messages(variant)[1]
       /\ launched > 0 => \E i \in Idx(debug_messages) : debug_messages[i] = "closed"


(***************************************************************************)
(* One scraper instance over several calls.  The application keeps one     *)
(* module-level instance of its scraper: every scrape_reviews call and     *)
(* every clear_data of the session acts on the same reviews_data,          *)
(* business_info and debug_messages.                                       *)
(***************************************************************************)
\* calls of scrape_reviews made on the instance
MaxCalls == 2

\* the pages the calls are sent to
InstancePages == {<<>>, <<"ok">>}

InstanceInit ==
    /\ variant \in Variants
    /\ pc = "idle"
    /\ h1 = " Pizza Place "
    /\ page \in InstancePages
    /\ max_reviews = 1
    /\ driver = None
    /\ launched = 0
    /\ quits = 0
    /\ loaded = 0
    /\ scroll = 0
    /\ grew = FALSE
    /\ stop = "none"
    /\ reviews_data = <<>>
    /\ business_info = <<>>
    /\ debug_messages = init_messages(variant)
    /\ retval = <<>>
    /\ outcome = "running"
    /\ failure = "none"
    /\ attempts = 0
    /\ calls = <<>>
    /\ sessions = <<>>
    /\ service = <<>>
    /\ NoUploads
    /\ NoExtraction

\* the caller takes the returned list and calls scrape_reviews again: the
\* locals of the call start afresh, the fields of the instance stay
CallAgain ==
    /\ pc = "done"
    /\ outcome = "returned"
    /\ Len(history) + 1 < MaxCalls
    /\ history' = Append(history, retval)
    /\ pc' = "idle"
    /\ page' \in InstancePages
    /\ driver' = None
    /\ launched' = 0
    /\ quits' = 0
    /\ loaded' = 0
    /\ scroll' = 0
    /\ grew' = FALSE
    /\ stop' = "none"
    /\ retval' = <<>>
    /\ outcome' = "running"
    /\ failure' = "none"
    /\ attempts' = 0
    /\ UNCHANGED <<variant, h1, max_reviews, reviews_data, business_info, debug_messages,
                   calls, sessions, analyzer, api_response, csv_analyzer, csv_message,
                   service, extraction>>

\* clear_data ends with self.log("Cleared all scraper data")
clear_data_logs(v) == v \in {"crawl4ai", "debug", "simplemaps"}

\* scraper.clear_data(), before a call
Scraper_clear_data ==
    /\ pc = "idle"
    /\ reviews_data' = <<>>
    /\ business_info' = <<>>
    /\ debug_messages' = IF clear_data_logs(variant) THEN <<"cleared">> ELSE <<>>
    /\ UNCHANGED <<other_vars, variant, pc, page, h1, max_reviews, driver, launched,
                   quits, loaded, scroll, grew, stop, retval, outcome, failure,
                   attempts>>

InstanceNext ==
    \/ Next
    \/ CallAgain
    \/ Scraper_clear_data

InstanceSpec == InstanceInit /\ [][InstanceNext]_vars

\* C26: when a call on the instance has returned, reviews_data is the list it
\* returned, whatever the calls before it left there
C26_ReviewsDataIsLastReturn ==
    Done /\ outcome = "returned" => reviews_data = retval


\* C27: in a call of the working or render scraper the identity is resolved
\* before any record is built, and every record, from the moment it is stored
\* to the return, carries as shop_name the name held in business_info, so all
\* records of the call carry the same shop_name
C27_ShopNameIsTheIdentity ==
    variant \in {"working", "render"}
    => /\ reviews_data # <<>> \/ retval # <<>> => "name" \in DOMAIN business_info
       /\ \A i \in Idx(reviews_data) : reviews_data[i].shop_name = business_info["name"]
       /\ \A i \in Idx(retval) : retval[i].shop_name = business_info["name"]

\* a call at a named business returned two records
C27_Witness ==
    /\ Done /\ variant \in {"working", "render"} /\ outcome = "returned"
    /\ Len(retval) >= 2
    /\ business_info["name"] = "Pizza Place"
    /\ retval[2].shop_name = "Pizza Place"


\* C28: when the calls of two threads for different businesses overlap on the
\* one instance, the records a call returns carry the shop_name of the
\* business that call was sent to
C28_CallsKeepTheirOwnBusiness ==
    \A t \in DOMAIN calls :
       calls[t].pc = "done"
       => \A i \in Idx(calls[t].retval) :
             calls[t].retval[i].shop_name = strip(ThreadHeading(t))


\* C29: an upload-csv request answered with status 500 leaves the analyzer's
\* data set and business name as they were before the request
C29_FailedUploadKeepsData ==
    [][upload_csv /\ api_response'.status = 500 => analyzer' = analyzer]_vars


\* "\n".join(messages)
RECURSIVE join(_)
join(messages) ==
    IF messages = <<>> THEN ""
    ELSE IF Len(messages) = 1 THEN messages[1]
    ELSE messages[1] \o "\n" \o join(Tail(messages))

\* get_debug_log()
get_debug_log == join(debug_messages)

\* C30: after clear_data on a scraper its reviews_data and business_info are
\* empty and get_debug_log returns the empty string
C30_ClearDataEmptiesAll ==
    [][Scraper_clear_data
       => reviews_data' = <<>> /\ business_info' = <<>> /\ get_debug_log' = ""]_vars

============================================================================
